---- MODULE Spec2Model ----
(***************************************************************************)
(* Model of the hodmd repository: the forecast assessment metric           *)
(* (assess_forecasts.py) and the linear dispatch optimizer (linmodel.py).  *)
(*                                                                         *)
(* Floating point values are modelled as exact rationals <<n, d>> with     *)
(* d > 0 and gcd(n, d) = 1; the IEEE specials are <<0,0>> (nan),           *)
(* <<1,0>> (inf) and <<-1,0>> (-inf).                                      *)
(***************************************************************************)
EXTENDS Integers, Sequences, FiniteSets, TLC

VARIABLES
    forecasts_array,      \* compute_metric_score argument: list of forecasts
    ground_truth_array,   \* compute_metric_score argument: list of ground truths
    global_mean_norm,     \* compute_metric_score argument (flag)
    metric_out,           \* outcome of the call: [status, value]
    \* LinProgModel instance (linmodel.py)
    Tmax,                 \* self.Tmax = env.time_steps
    has,                  \* names of the instance attributes that exist (hasattr)
    buildings,            \* self.buildings: the selected buildings, in order
    t_start,              \* self.t_start
    tau,                  \* self.tau
    battery_initial_socs, \* self.battery_initial_socs
    elec_loads,           \* self.elec_loads   [rows, cols, val]
    solar_gens,           \* self.solar_gens   [rows, cols, val]
    prices,               \* self.prices
    carbon_intensities,   \* self.carbon_intensities
    objective_dict,       \* self.objective_dict (resolved weights)
    problem,              \* the cvxpy program built by generate_LP
    params,               \* values bound to the program's parameters
    solution,             \* what the last successful solve_LP returned
    ret,                  \* the last call on the instance: [op, args, status]
    succeeded,            \* history: the operations that have returned normally
    \* Predictor instance (predictor.py)
    predictor,            \* the attributes of the instance
    pcall,                \* the last call on it: [op, args, status, value, out]
    appended,             \* history: per signal key, the observations appended
    \* assess (assess_forecasts.py)
    harness               \* the local variables of one run of assess

metricVars == <<forecasts_array, ground_truth_array, global_mean_norm, metric_out>>

dataVars == <<battery_initial_socs, elec_loads, solar_gens, prices, carbon_intensities>>

lpVars == <<Tmax, has, buildings, t_start, tau, dataVars, objective_dict, problem,
            params, solution, ret, succeeded>>

forecastVars == <<predictor, pcall, appended, harness>>

vars == <<metricVars, lpVars, forecastVars>>

----------------------------------------------------------------------------
(* Bounds of the model                                                     *)

MaxSteps == 2      \* scored steps (outer list length) of one metric call
MaxLen == 1        \* length of a ground-truth sub-sequence
NumBuildings == 2  \* buildings of the simulated district (env.buildings)
MaxT == 3          \* largest env.time_steps
MaxTau == 2        \* longest custom planning horizon
MaxL == 3          \* longest Predictor window L

FVals == {0, 2}    \* forecast samples
AVals == {1, 2}    \* ground-truth samples

----------------------------------------------------------------------------
(* Exact arithmetic                                                        *)

Abs(x) == IF x < 0 THEN -x ELSE x

Sign(x) == IF x < 0 THEN -1 ELSE IF x > 0 THEN 1 ELSE 0

RECURSIVE GCD(_, _)
GCD(a, b) == IF b = 0 THEN a ELSE GCD(b, a % b)

NaN == <<0, 0>>

RNorm(n, d) ==
    IF d = 0 THEN <<Sign(n), 0>>
    ELSE LET g == GCD(Abs(n), Abs(d))
             s == Sign(d)
         IN  <<(s * n) \div g, (s * d) \div g>>

RInt(i) == <<i, 1>>

IsFinite(a) == a[2] # 0

RAdd(a, b) ==
    IF IsFinite(a) /\ IsFinite(b) THEN RNorm(a[1] * b[2] + b[1] * a[2], a[2] * b[2])
    ELSE IF a = NaN \/ b = NaN THEN NaN
    ELSE IF ~IsFinite(a) /\ ~IsFinite(b) THEN (IF a = b THEN a ELSE NaN)
    ELSE IF ~IsFinite(a) THEN a ELSE b

RMul(a, b) ==
    IF a = NaN \/ b = NaN THEN NaN
    ELSE IF IsFinite(a) /\ IsFinite(b) THEN RNorm(a[1] * b[1], a[2] * b[2])
    ELSE <<Sign(a[1]) * Sign(b[1]), 0>>

\* IEEE division: x/0 is a signed infinity, 0/0 and inf/inf are nan.
RDiv(a, b) ==
    IF a = NaN \/ b = NaN THEN NaN
    ELSE IF IsFinite(a) /\ IsFinite(b) THEN RNorm(a[1] * b[2], a[2] * b[1])
    ELSE IF ~IsFinite(a) /\ ~IsFinite(b) THEN NaN
    ELSE IF ~IsFinite(a) THEN <<a[1] * (IF b[1] < 0 THEN -1 ELSE 1), 0>>
    ELSE <<0, 1>>

RLess(a, b) == a[1] * b[2] < b[1] * a[2]     \* finite operands only

RECURSIVE RSum(_)
RSum(s) == IF s = <<>> THEN RInt(0) ELSE RAdd(s[1], RSum(Tail(s)))

\* numpy.mean: the sum over the count; nan for an empty array
Mean(s) == RDiv(RSum(s), RInt(Len(s)))

SeqsUpTo(S, lo, hi) == UNION {[1..n -> S] : n \in lo..hi}

----------------------------------------------------------------------------
(* assess_forecasts.py: the metric                                         *)

Min(x, y) == IF x < y THEN x ELSE y

Max(x, y) == IF x < y THEN y ELSE x

\* Python slice s[:n]
Prefix(s, n) == SubSeq(s, 1, Min(Len(s), Max(n, 0)))

\* numpy broadcasting of two 1-d arrays: equal lengths, or one of length 1
Broadcastable(p, a) == Len(p) = Len(a) \/ Len(p) = 1 \/ Len(a) = 1

BroadcastLen(p, a) == IF Len(p) = Len(a) THEN Len(p)
                      ELSE IF Len(p) = 1 THEN Len(a) ELSE Len(p)

At(s, i) == IF Len(s) = 1 THEN s[1] ELSE s[i]

\* MAE(prediction, actual) = np.mean(np.abs(prediction - actual))
MAE(prediction, actual) ==
    Mean([i \in 1..BroadcastLen(prediction, actual) |->
             RInt(Abs(At(prediction, i) - At(actual, i)))])

\* mutant of LengthsAgree: the assertion dropped, zip scores the common prefix
LengthsAgreeOff(fs, gs) == TRUE

\* line 37: the assertion on the outer lengths
LengthsAgree(fs, gs) == Len(fs) = Len(gs)

\* mutant of Truncate: the forecast scored at its full length
TruncateOff(forecast, actual) == forecast

\* line 43: f = np.array(forecast)[:len(a)]
Truncate(forecast, actual) == Prefix(forecast, Len(actual))

\* zip(forecasts_array, ground_truth_array) stops at the shorter list
ZipLen(fs, gs) == Min(Len(fs), Len(gs))

\* lines 39-44: the per-step scores
metric_scores(fs, gs) ==
    [i \in 1..ZipLen(fs, gs) |-> MAE(Truncate(fs[i], gs[i]), gs[i])]

\* a step whose truncated forecast cannot be broadcast against its ground
\* truth raises ValueError inside the metric
ShapeError(fs, gs) ==
    \E i \in 1..ZipLen(fs, gs) : ~Broadcastable(Truncate(fs[i], gs[i]), gs[i])

RECURSIVE FirstValues(_)
\* [l[0] for l in ground_truth_array if len(l) > 0]
FirstValues(gs) ==
    IF gs = <<>> THEN <<>>
    ELSE IF Len(Head(gs)) > 0 THEN <<RInt(Head(gs)[1])>> \o FirstValues(Tail(gs))
    ELSE FirstValues(Tail(gs))

\* mutant of global_mean: the first values summed, not averaged
global_mean_sum(gs) == RSum(FirstValues(gs))

\* line 49: the normalisation divisor
global_mean(gs) == Mean(FirstValues(gs))

compute_metric_score(fs, gs, gmn) ==
    IF ~LengthsAgree(fs, gs) THEN [status |-> "AssertionError", value |-> NaN]
    ELSE IF ShapeError(fs, gs) THEN [status |-> "ValueError", value |-> NaN]
    ELSE LET metric_score == Mean(metric_scores(fs, gs))
         IN  [status |-> "ok",
              value  |-> IF gmn THEN RDiv(metric_score, global_mean(gs))
                         ELSE metric_score]

FcSeqs == SeqsUpTo(FVals, 0, MaxLen + 1)
GtSeqs == SeqsUpTo(AVals, 0, MaxLen)

\* no metric call in progress
MetricIdle ==
    /\ forecasts_array = <<>>
    /\ ground_truth_array = <<>>
    /\ global_mean_norm = FALSE
    /\ metric_out = [status |-> "none", value |-> NaN]

MetricInputs ==
    /\ forecasts_array \in SeqsUpTo(FcSeqs, 0, MaxSteps)
    /\ ground_truth_array \in SeqsUpTo(GtSeqs, 0, MaxSteps)
    /\ global_mean_norm = FALSE
    /\ metric_out = [status |-> "none", value |-> NaN]

\* one call of compute_metric_score on the drawn lists
ComputeMetricScore ==
    /\ metric_out.status = "none"
    /\ \E gmn \in BOOLEAN :
          /\ global_mean_norm' = gmn
          /\ metric_out' = compute_metric_score(forecasts_array, ground_truth_array, gmn)
    /\ UNCHANGED <<forecasts_array, ground_truth_array>>

----------------------------------------------------------------------------
(* The simulation environment the optimizer reads (external; a fixture).   *)
(* Buildings are numbered 1..NumBuildings, time indices are 0-based.       *)

\* range(len(self.b_names)): the indices of all buildings of the env
AllBuildings == [i \in 1..NumBuildings |-> i]

EnvLoad(b, t) == (b + t) % 3                       \* non_shiftable_load
EnvSolar(b, t) == IF b % 2 = 1 THEN 2 * (t % 2) ELSE 0   \* pv generation
EnvPrice(t) == 1 + (t % 2)                          \* electricity_pricing
EnvCarbon(t) == (t + 1) % 2                         \* carbon_intensity

\* electrical_storage of building b
Capacity(b) == IF b = 1 THEN 2 ELSE IF b = 2 THEN 1 ELSE 0
NominalPower(b) == IF b <= 2 THEN 1 ELSE 0
Efficiency(b) == IF b = 1 THEN <<1, 4>> ELSE <<1, 1>>
InitialSoc(b) == IF b = 1 THEN 1 ELSE 0

\* seconds_per_time_step / 3600
delta_t == 1

----------------------------------------------------------------------------
(* numpy arrays: a 1-d array is a sequence, a 2-d array is                 *)
(* [rows, cols, val] with val[i][k] (a 2-d array may have 0 rows and       *)
(* still a number of columns).                                             *)

Arr2(n, t, f(_, _)) ==
    [rows |-> n, cols |-> t, val |-> [i \in 1..n |-> [k \in 1..t |-> f(i, k)]]]

NoArr2 == [rows |-> 0, cols |-> 0, val |-> <<>>]

\* the parameters of a fresh program have no value
NoParams == [bound |-> {}, current_socs |-> <<>>, elec_loads |-> NoArr2,
             solar_gens |-> NoArr2, prices |-> <<>>, carbon_intensities |-> <<>>]

\* solve_LP has returned nothing yet
NoSolution == [value |-> NaN, breakdown |-> <<NaN, NaN, NaN>>, obj_check |-> NaN,
               SoC |-> <<>>, alpha |-> <<>>]

Clip0(x) == IF x < 0 THEN 0 ELSE x

\* arr.clip(min=0)
Clip1(a) == [k \in 1..Len(a) |-> Clip0(a[k])]

Clip2(a) == [a EXCEPT !.val = [i \in 1..a.rows |-> Clip1(a.val[i])]]

\* the indices a Python slice [start:stop] selects from a list of length n
PyIndex(n, x) == IF x < 0 THEN Max(x + n, 0) ELSE Min(x, n)

PySlice(n, start, stop) ==
    [j \in 1..Max(PyIndex(n, stop) - PyIndex(n, start), 0) |-> PyIndex(n, start) + j - 1]

----------------------------------------------------------------------------
(* linmodel.py: LinProgModel                                               *)

\* an optional argument is None (absent) or Some(x)
None == <<>>

Some(x) == <<x>>

Val(o) == o[1]

\* __init__ on an environment of T time steps: only env, b_names, Tmax and
\* delta_t exist
InitLP(T) ==
    /\ Tmax = T
    /\ has = {}
    /\ buildings = <<>>
    /\ t_start = 0
    /\ tau = 0
    /\ battery_initial_socs = <<>>
    /\ elec_loads = NoArr2
    /\ solar_gens = NoArr2
    /\ prices = <<>>
    /\ carbon_intensities = <<>>
    /\ objective_dict = <<>>
    /\ problem = <<>>
    /\ params = NoParams
    /\ solution = NoSolution
    /\ ret = [op |-> "__init__", args |-> <<>>, status |-> "ok"]
    /\ succeeded = {}

\* the call op(args) ends: normally ("ok") or by raising the named exception
Returns(op, args, status) ==
    /\ ret' = [op |-> op, args |-> args, status |-> status]
    /\ succeeded' = IF status = "ok" THEN succeeded \cup {op} ELSE succeeded

\* set_battery_propery_data(b_inds); b_inds = None selects every building
set_battery_propery_data(b_inds) ==
    /\ buildings' = IF b_inds = None THEN AllBuildings ELSE Val(b_inds)
    /\ has' = has \cup {"buildings"}
    /\ Returns("set_battery_propery_data", <<b_inds>>, "ok")
    /\ UNCHANGED <<Tmax, t_start, tau, dataVars, objective_dict, problem, params, solution>>

\* [b.electrical_storage.initial_soc for b in self.buildings]
EnvInitialSocs(bs) == [i \in 1..Len(bs) |-> InitialSoc(bs[i])]

\* `not x` for an optional int argument: None and 0 are both falsy
Falsy(x) == x = None \/ x = Some(0)

\* lines 87-88
NewTStart(ts) == IF Falsy(ts) THEN 0 ELSE Val(ts)

\* the bound of line 92
RemainingTime(ts) == (Tmax - 1) - ts

\* lines 102-111: the window [t_start+1, t_start+tau] of the env series
Window(ts, ta) == PySlice(Tmax, ts + 1, ts + ta + 1)

EnvWindow2(bs, ts, ta, series(_, _)) ==
    LET w == Window(ts, ta)
    IN  [rows |-> Len(bs), cols |-> Len(w),
         val |-> [i \in 1..Len(bs) |-> [k \in 1..Len(w) |-> series(bs[i], w[k])]]]

EnvWindow1(ts, ta, series(_)) ==
    LET w == Window(ts, ta) IN [k \in 1..Len(w) |-> series(w[k])]

set_time_data_from_env(ta, ts, current_socs) ==
    IF "buildings" \notin has THEN
        \* line 84 reads self.buildings, which does not exist
        /\ Returns("set_time_data_from_env", <<ta, ts, current_socs>>, "AttributeError")
        /\ UNCHANGED <<Tmax, has, buildings, t_start, tau, dataVars, objective_dict,
                       problem, params, solution>>
    ELSE IF buildings = <<>> THEN
        /\ Returns("set_time_data_from_env", <<ta, ts, current_socs>>, "NameError")
        /\ UNCHANGED <<Tmax, has, buildings, t_start, tau, dataVars, objective_dict,
                       problem, params, solution>>
    ELSE IF ~Falsy(ta) /\ Val(ta) > RemainingTime(NewTStart(ts)) THEN
        \* line 92 raises after t_start was assigned
        /\ t_start' = NewTStart(ts)
        /\ has' = has \cup {"t_start"}
        /\ Returns("set_time_data_from_env", <<ta, ts, current_socs>>, "ValueError")
        /\ UNCHANGED <<Tmax, buildings, tau, dataVars, objective_dict, problem, params,
                       solution>>
    ELSE
        LET nts == NewTStart(ts)
            nta == IF Falsy(ta) THEN RemainingTime(nts) ELSE Val(ta)
        IN  /\ t_start' = nts
            /\ tau' = nta
            /\ battery_initial_socs' =
                  IF current_socs # None THEN Val(current_socs) ELSE EnvInitialSocs(buildings)
            /\ elec_loads' = EnvWindow2(buildings, nts, nta, EnvLoad)
            /\ solar_gens' = EnvWindow2(buildings, nts, nta, EnvSolar)
            /\ prices' = EnvWindow1(nts, nta, EnvPrice)
            /\ carbon_intensities' = EnvWindow1(nts, nta, EnvCarbon)
            /\ has' = has \cup {"t_start", "tau", "battery_initial_socs", "elec_loads",
                                "solar_gens", "prices", "carbon_intensities"}
            /\ Returns("set_time_data_from_env", <<ta, ts, current_socs>>, "ok")
            /\ UNCHANGED <<Tmax, buildings, objective_dict, problem, params, solution>>

\* lines 136-139: the two shape assertions
CustomShapesAgree(loads, solar, pr, ci) ==
    /\ loads.rows = solar.rows /\ solar.rows = Len(buildings)
    /\ loads.cols = solar.cols /\ solar.cols = Len(pr) /\ Len(pr) = Len(ci)

set_custom_time_data(loads, solar, pr, ci, current_socs) ==
    IF "buildings" \notin has THEN
        /\ Returns("set_custom_time_data", <<>>, "NameError")
        /\ UNCHANGED <<Tmax, has, buildings, t_start, tau, dataVars, objective_dict,
                       problem, params, solution>>
    ELSE IF ~CustomShapesAgree(loads, solar, pr, ci) THEN
        /\ Returns("set_custom_time_data", <<>>, "AssertionError")
        /\ UNCHANGED <<Tmax, has, buildings, t_start, tau, dataVars, objective_dict,
                       problem, params, solution>>
    ELSE IF "tau" \notin has /\ ~(loads.cols > 0) THEN
        \* line 142 assigned self.tau before the assertion of line 143 fails
        /\ tau' = loads.cols
        /\ has' = has \cup {"tau"}
        /\ Returns("set_custom_time_data", <<>>, "AssertionError")
        /\ UNCHANGED <<Tmax, buildings, t_start, dataVars, objective_dict, problem,
                       params, solution>>
    ELSE IF "tau" \in has /\ loads.cols # tau THEN
        /\ Returns("set_custom_time_data", <<>>, "AssertionError")
        /\ UNCHANGED <<Tmax, has, buildings, t_start, tau, dataVars, objective_dict,
                       problem, params, solution>>
    ELSE
        /\ tau' = IF "tau" \in has THEN tau ELSE loads.cols
        /\ battery_initial_socs' =
              IF current_socs # None THEN Val(current_socs) ELSE EnvInitialSocs(buildings)
        /\ elec_loads' = loads
        /\ solar_gens' = solar
        /\ prices' = pr
        /\ carbon_intensities' = ci
        /\ has' = has \cup {"tau", "battery_initial_socs", "elec_loads", "solar_gens",
                            "prices", "carbon_intensities"}
        /\ Returns("set_custom_time_data", <<>>, "ok")
        /\ UNCHANGED <<Tmax, buildings, t_start, objective_dict, problem, params, solution>>

\* objective_dict values: a Python bool, float or int with its numeric value
\* (True == 1 and 1.0 == True hold in Python, so comparisons go by value)
VBool(b) == [t |-> "bool", x |-> IF b THEN RInt(1) ELSE RInt(0)]

VFloat(q) == [t |-> "float", x |-> q]

VInt(i) == [t |-> "int", x |-> RInt(i)]

Keys == <<"price", "carbon", "ramping">>

KeySet == {"price", "carbon", "ramping"}

\* line 179
TypesOk(d) == \A key \in KeySet : d[key].t \in {"bool", "float"}

AllBool(d) == \A key \in KeySet : d[key].t = "bool"

\* `val == True`
IsTrue(v) == v.x = RInt(1)

\* truthiness of a value
Truthy(v) == v.x # RInt(0)

\* np.sum(list(objective_dict.values()))
SumValues(d) == RAdd(d["price"].x, RAdd(d["carbon"].x, d["ramping"].x))

RAbs(a) == <<Abs(a[1]), a[2]>>

RSub(a, b) == RAdd(a, <<-b[1], b[2]>>)

RECURSIVE Pow10Floor(_)
\* 10 ** floor(log10(m)) for a finite m > 0
Pow10Floor(m) ==
    IF RLess(m, RInt(1)) THEN RMul(<<1, 10>>, Pow10Floor(RMul(m, RInt(10))))
    ELSE IF ~RLess(m, RInt(10)) THEN RMul(RInt(10), Pow10Floor(RDiv(m, RInt(10))))
    ELSE RInt(1)

\* np.testing.assert_approx_equal(actual, 1.0, significant=3) passes
ApproxOne(actual) ==
    \/ actual = RInt(1)
    \/ LET scale == Pow10Floor(RMul(<<1, 2>>, RAdd(RInt(1), RAbs(actual))))
           sc_desired == RDiv(RInt(1), scale)
           sc_actual == RDiv(actual, scale)
       IN  RLess(RAbs(RSub(sc_desired, sc_actual)), <<1, 100>>)

\* lines 181-184
WeightsOk(d) ==
    IF AllBool(d) THEN \E key \in KeySet : d[key] = VBool(TRUE)
    ELSE ApproxOne(SumValues(d))

\* lines 186-192: True entries (anything equal to True) share the weight evenly
Resolve(d) ==
    IF \E key \in KeySet : IsTrue(d[key])
    THEN LET n_trues == Cardinality({key \in KeySet : IsTrue(d[key])})
         IN  [key \in KeySet |->
                 IF IsTrue(d[key]) THEN VFloat(RDiv(RInt(1), RInt(n_trues))) ELSE d[key]]
    ELSE d

\* the keys whose entry of d is truthy, in the order price, carbon, ramping
ActiveKeys(d) == SelectSeq(Keys, LAMBDA key : Truthy(d[key]))

\* lines 298 and 368
obj_weights(d) == LET ks == ActiveKeys(d) IN [j \in 1..Len(ks) |-> d[ks[j]].x]

\* line 194
ClipLevelOk(clip_level) == clip_level \in {"d", "b"}

\* lines 196-306: the program as constructed; the battery arrays it embeds are
\* those of the buildings selected at that moment
NewProblem(d, clip_level) ==
    [buildings |-> buildings, N |-> Len(buildings), tau |-> tau,
     clip_level |-> clip_level,
     terms |-> ActiveKeys(d),
     weights |-> obj_weights(Resolve(d))]

generate_LP(d, clip_level) ==
    IF "buildings" \notin has \/ "tau" \notin has THEN
        /\ Returns("generate_LP", <<d, clip_level>>, "NameError")
        /\ UNCHANGED <<Tmax, has, buildings, t_start, tau, dataVars, objective_dict,
                       problem, params, solution>>
    ELSE IF ~TypesOk(d) \/ ~WeightsOk(d) THEN
        /\ Returns("generate_LP", <<d, clip_level>>, "AssertionError")
        /\ UNCHANGED <<Tmax, has, buildings, t_start, tau, dataVars, objective_dict,
                       problem, params, solution>>
    ELSE IF ~ClipLevelOk(clip_level) \/ ~(Len(buildings) > 0) THEN
        \* lines 194 and 197 fail after self.objective_dict was assigned
        /\ objective_dict' = Resolve(d)
        /\ has' = has \cup {"objective_dict"}
        /\ Returns("generate_LP", <<d, clip_level>>, "AssertionError")
        /\ UNCHANGED <<Tmax, buildings, t_start, tau, dataVars, problem, params, solution>>
    ELSE IF tau <= 0 \/ Len(ActiveKeys(d)) # Len(obj_weights(Resolve(d))) THEN
        \* cvxpy rejects a variable with a dimension <= 0 (line 201) and a
        \* product of vectors of different lengths (line 300)
        /\ objective_dict' = Resolve(d)
        /\ has' = has \cup {"objective_dict"}
        /\ Returns("generate_LP", <<d, clip_level>>, "ValueError")
        /\ UNCHANGED <<Tmax, buildings, t_start, tau, dataVars, problem, params, solution>>
    ELSE
        /\ objective_dict' = Resolve(d)
        /\ problem' = NewProblem(d, clip_level)
        /\ params' = NoParams
        /\ has' = has \cup {"objective_dict", "problem"}
        /\ Returns("generate_LP", <<d, clip_level>>, "ok")
        /\ UNCHANGED <<Tmax, buildings, t_start, tau, dataVars, solution>>

\* assigning Parameter.value checks the shape the program was built with
FitsN(a) == Len(a) = problem.N

FitsTau(a) == Len(a) = problem.tau

FitsNTau(a) == a.rows = problem.N /\ a.cols = problem.tau

\* lines 320-324, in order; the first shape that does not fit raises and the
\* assignments before it stay
BindUpTo(n) ==
    [bound |-> (params.bound \cup {<<"current_socs", "elec_loads", "solar_gens", "prices",
                   "carbon_intensities">>[j] : j \in 1..n}),
     current_socs |-> IF n >= 1 THEN Clip1(battery_initial_socs) ELSE params.current_socs,
     elec_loads |-> IF n >= 2 THEN Clip2(elec_loads) ELSE params.elec_loads,
     solar_gens |-> IF n >= 3 THEN Clip2(solar_gens) ELSE params.solar_gens,
     prices |-> IF n >= 4 THEN Clip1(prices) ELSE params.prices,
     carbon_intensities |-> IF n >= 5 THEN Clip1(carbon_intensities)
                            ELSE params.carbon_intensities]

FitCount ==
    IF ~FitsN(battery_initial_socs) THEN 0
    ELSE IF ~FitsNTau(elec_loads) THEN 1
    ELSE IF ~FitsNTau(solar_gens) THEN 2
    ELSE IF ~FitsTau(prices) THEN 3
    ELSE IF ~FitsTau(carbon_intensities) THEN 4
    ELSE 5

DataLoaded == {"elec_loads", "solar_gens", "prices", "carbon_intensities",
               "battery_initial_socs"} \subseteq has

set_LP_parameters ==
    IF "problem" \notin has \/ ~DataLoaded THEN
        /\ Returns("set_LP_parameters", <<>>, "NameError")
        /\ UNCHANGED <<Tmax, has, buildings, t_start, tau, dataVars, objective_dict,
                       problem, params, solution>>
    ELSE
        /\ params' = BindUpTo(FitCount)
        /\ Returns("set_LP_parameters", <<>>, IF FitCount = 5 THEN "ok" ELSE "ValueError")
        /\ UNCHANGED <<Tmax, has, buildings, t_start, tau, dataVars, objective_dict,
                       problem, solution>>

get_LP_data ==
    /\ Returns("get_LP_data", <<>>, IF "problem" \notin has THEN "NameError" ELSE "ok")
    /\ UNCHANGED <<Tmax, has, buildings, t_start, tau, dataVars, objective_dict,
                   problem, params, solution>>
----------------------------------------------------------------------------
(* The linear program of generate_LP, evaluated on bound parameter values. *)
(* prob is a program record, pv the parameter values, alpha[i][k] and      *)
(* SoC[i][k] candidate values of the decision variables.                   *)

ISqrt(n) == CHOOSE r \in 0..n : r * r = n

\* np.sqrt on the efficiencies of the fixture (perfect squares)
RSqrt(q) == <<ISqrt(q[1]), ISqrt(q[2])>>

RMax(a, b) == IF RLess(a, b) THEN b ELSE a

RMin(a, b) == IF RLess(a, b) THEN a ELSE b

\* cp.pos
RPos(a) == RMax(a, RInt(0))

RLeq(a, b) == ~RLess(b, a)

RECURSIVE RSumTo(_, _)
\* f[1] + ... + f[n]
RSumTo(f, n) == IF n = 0 THEN RInt(0) ELSE RAdd(f[n], RSumTo(f, n - 1))

\* a @ b for 1-d arrays of equal length
Dot(a, b) == RSumTo([k \in 1..Len(a) |-> RMul(a[k], b[k])], Len(a))

\* cp.norm(e[1:] - e[:-1], 1)
Ramp(e) == RSumTo([k \in 1..(Len(e) - 1) |-> RAbs(RSub(e[k + 1], e[k]))], Len(e) - 1)

ToR(a) == [k \in 1..Len(a) |-> RInt(a[k])]

battery_capacities(prob) == [i \in 1..prob.N |-> Capacity(prob.buildings[i])]

battery_max_powers(prob) == [i \in 1..prob.N |-> NominalPower(prob.buildings[i])]

battery_efficiencies(prob) == [i \in 1..prob.N |-> Efficiency(prob.buildings[i])]

\* elec_loads_param - solar_gens_param
building_power_flows_without(prob, pv) ==
    [i \in 1..prob.N |-> [k \in 1..prob.tau |->
        RInt(pv.elec_loads.val[i][k] - pv.solar_gens.val[i][k])]]

\* cp.multiply(alpha, capacities)
battery_energy(prob, alpha) ==
    [i \in 1..prob.N |-> [k \in 1..prob.tau |->
        RMul(alpha[i][k], RInt(battery_capacities(prob)[i]))]]

\* lines 285-286
building_power_flows(prob, pv, alpha) ==
    [i \in 1..prob.N |-> [k \in 1..prob.tau |->
        RAdd(building_power_flows_without(prob, pv)[i][k], battery_energy(prob, alpha)[i][k])]]

\* cp.sum(m, axis=0)
SumRows(m, n, t) == [k \in 1..t |-> RSumTo([i \in 1..n |-> m[i][k]], n)]

PosRows(m, n, t) == [i \in 1..n |-> [k \in 1..t |-> RPos(m[i][k])]]

\* line 213
e_grids_without(prob, pv) == SumRows(building_power_flows_without(prob, pv), prob.N, prob.tau)

\* line 214
ramp_without(prob, pv) == Ramp(e_grids_without(prob, pv))

\* lines 262-264
e_grids(prob, pv, alpha) == SumRows(building_power_flows(prob, pv, alpha), prob.N, prob.tau)

\* variant: the building-level baseline computed with the district formula
clipped_without_district(prob, pv) ==
    [k \in 1..prob.tau |-> RPos(e_grids_without(prob, pv)[k])]

\* the clipped grid energy of the no-storage baseline, per clip level
\* (lines 218-219 and 223-225)
clipped_without(prob, pv) ==
    IF prob.clip_level = "d"
    THEN [k \in 1..prob.tau |-> RPos(e_grids_without(prob, pv)[k])]
    ELSE SumRows(PosRows(building_power_flows_without(prob, pv), prob.N, prob.tau),
                 prob.N, prob.tau)

price_without(prob, pv) == Dot(clipped_without(prob, pv), ToR(pv.prices))

carbon_without(prob, pv) == Dot(clipped_without(prob, pv), ToR(pv.carbon_intensities))

\* variant: bxi bounded below by the building flows only, not by 0
least_xi_unclipped(prob, pv, alpha) ==
    IF prob.clip_level = "d"
    THEN [k \in 1..prob.tau |-> RPos(e_grids(prob, pv, alpha)[k])]
    ELSE SumRows(building_power_flows(prob, pv, alpha), prob.N, prob.tau)

\* the least values of the auxiliary variables xi (line 274) and bxi (line 287)
\* that satisfy their constraints, summed over the buildings for bxi
least_xi(prob, pv, alpha) ==
    IF prob.clip_level = "d"
    THEN [k \in 1..prob.tau |-> RPos(e_grids(prob, pv, alpha)[k])]
    ELSE SumRows(PosRows(building_power_flows(prob, pv, alpha), prob.N, prob.tau),
                 prob.N, prob.tau)

\* one objective contribution (lines 277-295) for the auxiliary values aux
Contribution(prob, pv, alpha, aux, key) ==
    IF key = "price"
    THEN RDiv(Dot(aux, ToR(pv.prices)), RMax(price_without(prob, pv), RInt(1)))
    ELSE IF key = "carbon"
    THEN RDiv(Dot(aux, ToR(pv.carbon_intensities)), RMax(carbon_without(prob, pv), RInt(1)))
    ELSE RDiv(Ramp(e_grids(prob, pv, alpha)), RMax(ramp_without(prob, pv), RInt(1)))

\* lines 297-300: objective_contributions @ obj_weights
obj(prob, pv, alpha, aux) ==
    Dot([j \in 1..Len(prob.terms) |-> Contribution(prob, pv, alpha, aux, prob.terms[j])],
        prob.weights)

\* the objective with the auxiliary variables at their least feasible values
ObjAt(prob, pv, alpha) == obj(prob, pv, alpha, least_xi(prob, pv, alpha))

\* lines 232-249: SoC[i][k] against the state of charge before step k
DynamicsOk(prob, pv, alpha, SoC) ==
    \A i \in 1..prob.N : \A k \in 1..prob.tau :
        LET before == IF k = 1 THEN RInt(pv.current_socs[i]) ELSE SoC[i][k - 1]
            en == battery_energy(prob, alpha)[i][k]
            sq == RSqrt(battery_efficiencies(prob)[i])
        IN  /\ RLeq(SoC[i][k], RAdd(before, RMul(en, sq)))
            /\ RLeq(SoC[i][k], RAdd(before, RMul(en, RDiv(RInt(1), sq))))

\* lines 252-255
PowerOk(prob, alpha) ==
    \A i \in 1..prob.N : \A k \in 1..prob.tau :
        LET en == battery_energy(prob, alpha)[i][k]
            lim == RInt(battery_max_powers(prob)[i] * delta_t)
        IN  RLeq(RSub(RInt(0), lim), en) /\ RLeq(en, lim)

\* line 258, and nonneg=True of line 201
CapacityOk(prob, SoC) ==
    \A i \in 1..prob.N : \A k \in 1..prob.tau :
        RLeq(RInt(0), SoC[i][k]) /\ RLeq(SoC[i][k], RInt(battery_capacities(prob)[i]))

Feasible(prob, pv, alpha, SoC) ==
    DynamicsOk(prob, pv, alpha, SoC) /\ PowerOk(prob, alpha) /\ CapacityOk(prob, SoC)
----------------------------------------------------------------------------
(* problem.solve: the solver backend is external.  It is modelled as an    *)
(* exact minimiser over the grid of whole battery energies alpha*capacity  *)
(* within the power limits.                                                *)

MaxPower(prob) ==
    LET ps == {battery_max_powers(prob)[i] * delta_t : i \in 1..prob.N}
    IN  IF ps = {} THEN 0 ELSE CHOOSE m \in ps : \A q \in ps : q <= m

\* alpha[i][k] = u[i][k] / capacity[i]; a battery of capacity 0 has no effect
\* on the program and its alpha is reported as 0
AlphaOf(prob, u) ==
    [i \in 1..prob.N |-> [k \in 1..prob.tau |->
        IF battery_capacities(prob)[i] = 0 THEN RInt(0)
        ELSE RDiv(RInt(u[i][k]), RInt(battery_capacities(prob)[i]))]]

AlphaGrid(prob) ==
    {AlphaOf(prob, u) : u \in
        {v \in [1..prob.N -> [1..prob.tau -> (-MaxPower(prob))..MaxPower(prob)]] :
            \A i \in 1..prob.N : \A k \in 1..prob.tau :
                /\ Abs(v[i][k]) <= battery_max_powers(prob)[i] * delta_t
                /\ battery_capacities(prob)[i] = 0 => v[i][k] = 0}}

ZeroAlpha(prob) == [i \in 1..prob.N |-> [k \in 1..prob.tau |-> RInt(0)]]

RECURSIVE SoCMaxAt(_, _, _, _, _)
\* the largest state of charge the constraints allow at step k
SoCMaxAt(prob, pv, alpha, i, k) ==
    LET before == IF k = 1 THEN RInt(pv.current_socs[i])
                  ELSE SoCMaxAt(prob, pv, alpha, i, k - 1)
        en == battery_energy(prob, alpha)[i][k]
        sq == RSqrt(battery_efficiencies(prob)[i])
    IN  RMin(RInt(battery_capacities(prob)[i]),
             RAdd(before, RMin(RMul(en, sq), RMul(en, RDiv(RInt(1), sq)))))

SoCMax(prob, pv, alpha) ==
    [i \in 1..prob.N |-> [k \in 1..prob.tau |-> SoCMaxAt(prob, pv, alpha, i, k)]]

\* alpha admits some SoC satisfying every constraint
AlphaFeasible(prob, pv, alpha) ==
    Feasible(prob, pv, alpha, SoCMax(prob, pv, alpha))

\* the optimal points of the grid
Optimal(prob, pv) ==
    LET cand == {a \in AlphaGrid(prob) : AlphaFeasible(prob, pv, a)}
        val == [a \in cand |-> ObjAt(prob, pv, a)]
        vals == {val[a] : a \in cand}
        best == CHOOSE m \in vals : \A v \in vals : RLeq(m, v)
    IN  {a \in cand : val[a] = best}

\* states of charge the solver may report for alpha
SoCChoices(prob, pv, alpha) ==
    {S \in {SoCMax(prob, pv, alpha), ZeroAlpha(prob)} : Feasible(prob, pv, alpha, S)}

AllBound == params.bound = {"current_socs", "elec_loads", "solar_gens", "prices",
                            "carbon_intensities"}

\* lines 360-362: np.maximum(e_grids.value, 0) @ self.prices uses the loaded
\* (unclipped) series and the district-level grid energy in both clip levels
price_contr(alpha) ==
    IF Truthy(objective_dict["price"])
    THEN Dot([k \in 1..problem.tau |-> RPos(e_grids(problem, params, alpha)[k])], ToR(prices))
    ELSE NaN

carbon_contr(alpha) ==
    IF Truthy(objective_dict["carbon"])
    THEN Dot([k \in 1..problem.tau |-> RPos(e_grids(problem, params, alpha)[k])],
             ToR(carbon_intensities))
    ELSE NaN

ramp_contr(alpha) ==
    IF Truthy(objective_dict["ramping"]) THEN Ramp(e_grids(problem, params, alpha)) ELSE NaN

\* lines 363-367
objective_breakdown(alpha) ==
    <<RDiv(price_contr(alpha), RMax(price_without(problem, params), RInt(1))),
      RDiv(carbon_contr(alpha), RMax(carbon_without(problem, params), RInt(1))),
      RDiv(ramp_contr(alpha), RMax(ramp_without(problem, params), RInt(1)))>>

\* line 369: both arrays are indexed with the 3-entry mask ~isnan(breakdown);
\* numpy raises IndexError when obj_weights does not have 3 entries
MaskFits(w) == Len(w) = 3

obj_check(alpha) ==
    LET bd == objective_breakdown(alpha)
        w == obj_weights(objective_dict)
        keep == SelectSeq(<<1, 2, 3>>, LAMBDA j : bd[j] # NaN)
    IN  Dot([j \in 1..Len(keep) |-> bd[keep[j]]], [j \in 1..Len(keep) |-> w[keep[j]]])

\* the matrix products of lines 360-361 need series of the program's length
ContrShapesOk ==
    /\ Truthy(objective_dict["price"]) => Len(prices) = problem.tau
    /\ Truthy(objective_dict["carbon"]) => Len(carbon_intensities) = problem.tau

solve_LP ==
    IF "problem" \notin has THEN
        /\ Returns("solve_LP", <<>>, "ValueError")
        /\ UNCHANGED <<Tmax, has, buildings, t_start, tau, dataVars, objective_dict,
                       problem, params, solution>>
    ELSE IF ~AllBound THEN
        \* cvxpy refuses to solve with a parameter that has no value
        /\ Returns("solve_LP", <<>>, "ParameterError")
        /\ UNCHANGED <<Tmax, has, buildings, t_start, tau, dataVars, objective_dict,
                       problem, params, solution>>
    ELSE IF ~ContrShapesOk THEN
        /\ Returns("solve_LP", <<>>, "ValueError")
        /\ UNCHANGED <<Tmax, has, buildings, t_start, tau, dataVars, objective_dict,
                       problem, params, solution>>
    ELSE IF ~MaskFits(obj_weights(objective_dict)) THEN
        /\ Returns("solve_LP", <<>>, "IndexError")
        /\ UNCHANGED <<Tmax, has, buildings, t_start, tau, dataVars, objective_dict,
                       problem, params, solution>>
    ELSE
        /\ \E alpha \in Optimal(problem, params) :
           \E SoC \in SoCChoices(problem, params, alpha) :
              solution' = [value |-> ObjAt(problem, params, alpha),
                           breakdown |-> objective_breakdown(alpha),
                           obj_check |-> obj_check(alpha),
                           SoC |-> SoC, alpha |-> alpha]
        /\ Returns("solve_LP", <<>>, "ok")
        /\ UNCHANGED <<Tmax, has, buildings, t_start, tau, dataVars, objective_dict,
                       problem, params>>
----------------------------------------------------------------------------
(* predictor.py: Predictor.  A Python str is the sequence of its           *)
(* characters; a value that may be an int or a str is a record that keeps  *)
(* the two types apart.                                                    *)

PyInt(n) == [t |-> "int", n |-> n, s |-> <<>>]

PyStr(cs) == [t |-> "str", n |-> 0, s |-> cs]

LOAD == <<"l", "o", "a", "d">>

SOLAR == <<"s", "o", "l", "a", "r">>

CARBON == <<"c", "a", "r", "b", "o", "n">>

PRICE == <<"p", "r", "i", "c", "e">>

DatasetTypes == {LOAD, SOLAR, CARBON, PRICE}

Digits == <<"0", "1", "2", "3", "4", "5", "6", "7", "8", "9">>

RECURSIVE Str(_)
\* str(n) of an int n >= 0
Str(n) == IF n < 10 THEN <<Digits[n + 1]>> ELSE Str(n \div 10) \o <<Digits[(n % 10) + 1]>>

DigitValue(c) == (CHOOSE d \in 1..10 : Digits[d] = c) - 1

RECURSIVE ParseInt(_)
\* int(cs) of a string of digits
ParseInt(cs) ==
    IF Len(cs) = 0 THEN 0
    ELSE 10 * ParseInt(SubSeq(cs, 1, Len(cs) - 1)) + DigitValue(cs[Len(cs)])

\* str(v) and int(v) of an int-or-str value
PyStrOf(v) == IF v.t = "int" THEN Str(v.n) ELSE v.s

PyIntOf(v) == IF v.t = "int" THEN v.n ELSE ParseInt(v.s)

HasUnderscore(cs) == \E k \in 1..Len(cs) : cs[k] = "_"

RECURSIVE Split(_)
\* cs.split('_')
Split(cs) ==
    IF ~HasUnderscore(cs) THEN <<cs>>
    ELSE LET k == CHOOSE j \in 1..Len(cs) :
                     cs[j] = "_" /\ \A i \in 1..(j - 1) : cs[i] # "_"
         IN  <<SubSeq(cs, 1, k - 1)>> \o Split(SubSeq(cs, k + 1, Len(cs)))

\* key2bd: (building_index, dataset_type); the index of a split key is the
\* text after the underscore, that of carbon and price is building_indices[0]
key2bd(building_indices, key) ==
    IF HasUnderscore(key)
    THEN <<PyStr(Split(key)[2]), Split(key)[1]>>
    ELSE <<PyInt(building_indices[1]), key>>

bd2key(building_index, dataset_type) ==
    IF dataset_type \notin {PRICE, CARBON}
    THEN dataset_type \o <<"_">> \o PyStrOf(building_index)
    ELSE dataset_type

\* lines 69-71
training_order(building_indices) ==
    [j \in 1..Len(building_indices) |-> LOAD \o <<"_">> \o Str(building_indices[j])]
    \o [j \in 1..Len(building_indices) |-> SOLAR \o <<"_">> \o Str(building_indices[j])]
    \o <<CARBON, PRICE>>

SeqRange(q) == {q[j] : j \in 1..Len(q)}

\* the last row of the validation dataset of a signal: a window of L values
\* (utils.Data is not part of the sources)
ValidationWindow(key, L) == [k \in 1..L |-> (k + Len(key)) % 3]

NoFits == [dmdc |-> <<>>, hodmd_250 |-> <<>>, hodmd_300 |-> <<>>, hodmd_280 |-> <<>>]

\* the instance after Predictor(N, tau, building_indices, L)
NewPredictor(N, ta, building_indices, L) ==
    [num_buildings |-> N, tau |-> ta, L |-> L, building_indices |-> building_indices,
     training_order |-> training_order(building_indices),
     buffer |-> [key \in SeqRange(training_order(building_indices)) |->
                    ValidationWindow(key, L)],
     control_buffer |-> [diff_solar |-> 0, dir_solar |-> 0],
     fitted |-> NoFits,
     has_irradiance |-> FALSE, simulation_duration |-> 0]

NoOut == [solar |-> <<>>, load |-> <<>>, carbon |-> <<>>, price |-> <<>>]

PredictorInit(N, ta, building_indices, L) ==
    /\ predictor = NewPredictor(N, ta, building_indices, L)
    /\ pcall = [op |-> "__init__", args |-> <<>>, status |-> "ok", value |-> None,
                out |-> NoOut]
    /\ appended = [key \in SeqRange(training_order(building_indices)) |-> <<>>]

\* lines 146-151: the irradiance series have one value per time step
initialise_forecasting(T) ==
    /\ predictor' = [predictor EXCEPT !.has_irradiance = TRUE, !.simulation_duration = T]
    /\ pcall' = [op |-> "initialise_forecasting", args |-> <<T>>, status |-> "ok",
                 value |-> None, out |-> NoOut]
    /\ UNCHANGED appended

\* lines 193-198: columns 21, 20, 19 and 24 of the observation rows
CurrentObs(observations, type) ==
    IF type = SOLAR THEN [i \in 1..Len(observations) |-> observations[i].solar]
    ELSE IF type = LOAD THEN [i \in 1..Len(observations) |-> observations[i].load]
    ELSE IF type = CARBON THEN <<observations[1].carbon>>
    ELSE <<observations[1].price>>

\* list.index: the 0-based position of x
Index(q, x) == (CHOOSE j \in 1..Len(q) : q[j] = x /\ \A i \in 1..(j - 1) : q[i] # x) - 1

\* deque(maxlen).append: the oldest value leaves a full deque
DequeAppendNoEvict(q, x, maxlen) == Append(q, x)

DequeAppend(q, x, maxlen) == IF Len(q) < maxlen THEN Append(q, x) ELSE Tail(q) \o <<x>>

\* seq[start:stop]
SliceSeq(q, start, stop) ==
    LET w == PySlice(Len(q), start, stop) IN [j \in 1..Len(w) |-> q[w[j] + 1]]

\* the fitted model is external (pydmd): its reconstruction over n time steps
\* reproduces the fitted window and continues it; the continued samples are
\* offset so that they differ from the fitted ones
Reconstruct(window, n) ==
    [j \in 1..n |-> IF j <= Len(window) THEN window[j]
                    ELSE window[((j - 1) % Len(window)) + 1] + 10]

\* line 237: np.array([list(buffer)[-L:]]), an array of 1 row
Snapshots(buf, L) ==
    LET w == SliceSeq(buf, -L, Len(buf)) IN [rows |-> 1, cols |-> Len(w), val |-> <<w>>]

\* len(snapshots) of lines 320 and 376: the number of rows
LenSnapshots(snapshots) == snapshots.rows

\* lines 343-349
setcontainer(key) ==
    IF key = LOAD \o <<"_", "5">> THEN "hodmd_250"
    ELSE IF key = LOAD \o <<"_", "2", "4">> THEN "hodmd_280"
    ELSE "hodmd_300"

\* lines 278-279: the irradiance slice [t : L + t + L]
IrradianceRows(self, t) == Len(PySlice(self.simulation_duration, t, self.L + t + self.L))

\* lines 244-386 for one key; st is [buffer, fitted, out, app, status]
FitAndForecast(self, st, key, type, t) ==
    LET snapshots == Snapshots(st.buffer[key], self.L)
        window == snapshots.val[1]
        from == LenSnapshots(snapshots)
    IN  IF type = SOLAR THEN
            IF ~self.has_irradiance THEN [st EXCEPT !.status = "AttributeError"]
            ELSE IF IrradianceRows(self, t) < self.L
            THEN [st EXCEPT !.status = "ValueError"]
            ELSE IF IrradianceRows(self, t) < 2 * self.L
            THEN [st EXCEPT !.fitted.dmdc = window, !.status = "RuntimeError"]
            ELSE [st EXCEPT !.fitted.dmdc = window,
                            !.out.solar = Append(@, SliceSeq(Reconstruct(window, self.L),
                                                             from, from + self.tau * 2))]
        ELSE
            [st EXCEPT ![("fitted")][setcontainer(key)] = window,
                       !.out = IF type = LOAD
                               THEN [@ EXCEPT !.load = Append(@,
                                        SliceSeq(Reconstruct(window, self.tau + self.L),
                                                 from, from + self.tau * 2))]
                               ELSE IF type = CARBON
                               THEN [@ EXCEPT !.carbon = Append(@,
                                        SliceSeq(Reconstruct(window, self.tau + self.L),
                                                 from, from + self.tau * 2))]
                               ELSE [@ EXCEPT !.price = Append(@,
                                        SliceSeq(Reconstruct(window, self.tau + self.L),
                                                 from, from + self.tau * 2))]]

\* mutant of StepKey: the model is fitted on the maintenance path as well
StepKeyAlwaysFits(self, st, key, observations, t, flag) ==
    LET bd == key2bd(self.building_indices, key)
        type == bd[2]
        pos == Index(self.building_indices, PyIntOf(bd[1]))
        cur == CurrentObs(observations, type)
    IN  IF pos >= Len(cur) THEN [st EXCEPT !.status = "IndexError"]
        ELSE FitAndForecast(self,
                 [st EXCEPT !.buffer[key] = DequeAppend(@, cur[pos + 1], self.L),
                            !.app[key] = Append(@, cur[pos + 1])], key, type, t)

\* lines 232-235 (396-397), then the fit when a forecast is computed
StepKey(self, st, key, observations, t, flag) ==
    LET bd == key2bd(self.building_indices, key)
        type == bd[2]
        pos == Index(self.building_indices, PyIntOf(bd[1]))
        cur == CurrentObs(observations, type)
    IN  IF pos >= Len(cur) THEN [st EXCEPT !.status = "IndexError"]
        ELSE LET st1 == [st EXCEPT !.buffer[key] = DequeAppend(@, cur[pos + 1], self.L),
                                   !.app[key] = Append(@, cur[pos + 1])]
             IN  IF flag THEN FitAndForecast(self, st1, key, type, t) ELSE st1

RECURSIVE RunKeys(_, _, _, _, _, _)
\* the loop over self.training_order from position j; an exception ends it
RunKeys(self, st, j, observations, t, flag) ==
    IF j > Len(self.training_order) \/ st.status # "ok" THEN st
    ELSE RunKeys(self, StepKey(self, st, self.training_order[j], observations, t, flag),
                 j + 1, observations, t, flag)

RECURSIVE Flatten(_)
\* np.array(rows).reshape(-1)
Flatten(rows) == IF Len(rows) = 0 THEN <<>> ELSE Head(rows) \o Flatten(Tail(rows))

\* line 390
Bundle(out) == <<out.load, out.solar, Flatten(out.carbon), Flatten(out.price)>>

\* what compute_forecast does to the instance and what it returns
ComputeForecast(self, app, observations, t, flag) ==
    LET st == RunKeys(self, [buffer |-> self.buffer, fitted |-> self.fitted, out |-> NoOut,
                             app |-> app, status |-> "ok"], 1, observations, t, flag)
    IN  [self |-> [self EXCEPT !.buffer = st.buffer, !.fitted = st.fitted],
         app |-> st.app, status |-> st.status, out |-> st.out,
         value |-> IF st.status = "ok" /\ flag THEN Some(Bundle(st.out)) ELSE None]

compute_forecast(observations, observations_inputs, t, flag) ==
    LET r == ComputeForecast(predictor, appended, observations, t, flag)
    IN  /\ predictor' = r.self
        /\ appended' = r.app
        /\ pcall' = [op |-> "compute_forecast", args |-> <<observations, t, flag>>,
                     status |-> r.status, value |-> r.value, out |-> r.out]

\* no Predictor constructed and no run of assess started
NoLog == [forecasts |-> <<>>, actuals |-> <<>>]

\* the locals of assess at position pc for an environment of N buildings and
\* T time steps; calls, bundles and opt_outs are history
HarnessAt(pc, N, T, ta) ==
    [pc |-> pc, N |-> N, T |-> T, tau |-> ta,
     time_step |-> 0, done |-> FALSE, num_steps |-> 0,
     load_logs |-> [i \in 1..N |-> NoLog], pv_gen_logs |-> [i \in 1..N |-> NoLog],
     pricing_logs |-> NoLog, carbon_logs |-> NoLog,
     actions |-> <<>>, error |-> "none", results |-> None,
     calls |-> 0, bundles |-> <<>>, opt_outs |-> 0]

NoHarness == HarnessAt("idle", 0, 0, 0)

ForecastIdle ==
    /\ predictor = None
    /\ pcall = [op |-> "none", args |-> <<>>, status |-> "none", value |-> None,
                out |-> NoOut]
    /\ appended = <<>>
    /\ harness = NoHarness

ForecastFrame == UNCHANGED forecastVars

----------------------------------------------------------------------------
(* Specifications                                                          *)

MetricFrame == UNCHANGED metricVars

LPFrame == UNCHANGED lpVars

\* compute_metric_score on every pair of lists within the bounds
InitMetric == MetricInputs /\ InitLP(MaxT) /\ ForecastIdle

NextMetric == ComputeMetricScore /\ LPFrame /\ ForecastFrame

SpecMetric == InitMetric /\ [][NextMetric]_vars

\* inputs of the call-order specification: the shapes vary, the values do not
Ones2(n, t) == Arr2(n, t, LAMBDA i, k : 1)

Ones1(t) == [k \in 1..t |-> 1]

OrderTaus == {None, Some(1), Some(MaxT)}

OrderTStarts == {None, Some(1)}

OrderBInds == {None, Some(<<>>), Some(<<1>>)}

OrderDicts ==
    {[price |-> VBool(TRUE), carbon |-> VBool(TRUE), ramping |-> VBool(TRUE)],
     [price |-> VBool(FALSE), carbon |-> VBool(FALSE), ramping |-> VBool(FALSE)]}

CallSetBattery == \E b_inds \in OrderBInds : set_battery_propery_data(b_inds)

CallSetTimeFromEnv ==
    \E ta \in OrderTaus, ts \in OrderTStarts : set_time_data_from_env(ta, ts, None)

CallSetCustom ==
    \E n \in {0, 1, NumBuildings}, t \in {0, 1, MaxT - 1} : \E t2 \in {1, t} :
        set_custom_time_data(Ones2(n, t), Ones2(n, t), Ones1(t2), Ones1(t), None)

CallGenerate ==
    \E d \in OrderDicts, clip_level \in {"d", "x"} : generate_LP(d, clip_level)

Init == MetricIdle /\ InitLP(MaxT) /\ ForecastIdle

Next ==
    /\ MetricFrame /\ ForecastFrame
    /\ \/ CallSetBattery
       \/ CallSetTimeFromEnv
       \/ CallSetCustom
       \/ CallGenerate
       \/ set_LP_parameters
       \/ get_LP_data

\* any sequence of calls on one LinProgModel instance
Spec == Init /\ [][Next]_vars

\* the step position of a specification that calls the operations in order
After(op) == ret.op = op

\* set_time_data_from_env around the end of the data: every environment
\* length up to MaxT, every start up to MaxT, every horizon up to MaxT + 1
InitHorizon == MetricIdle /\ ForecastIdle /\ \E T \in 1..MaxT : InitLP(T)

HorizonTaus == {None} \cup {Some(x) : x \in 0..(MaxT + 1)}

HorizonTStarts == {None} \cup {Some(x) : x \in 0..MaxT}

HorizonSetBattery == \E b_inds \in {None, Some(<<1>>)} : set_battery_propery_data(b_inds)

HorizonSetTime ==
    \E ta \in HorizonTaus, ts \in HorizonTStarts : set_time_data_from_env(ta, ts, None)

NextHorizon ==
    /\ MetricFrame /\ ForecastFrame
    /\ \/ HorizonSetBattery
       \/ HorizonSetTime

SpecHorizon == InitHorizon /\ [][NextHorizon]_vars

\* generate_LP on every objective_dict over these values, on an instance with
\* its battery and time data loaded from the environment
WeightValues ==
    {VBool(TRUE), VBool(FALSE), VInt(1)} \cup
    {VFloat(q) : q \in {<<-1, 1>>, <<-1, 2>>, <<0, 1>>, <<1, 4>>, <<1, 2>>, <<1, 1>>,
                        <<3, 2>>, <<201, 200>>}}

WeightDicts == [KeySet -> WeightValues]

WeightsSetBattery == After("__init__") /\ set_battery_propery_data(None)

WeightsSetTime ==
    After("set_battery_propery_data") /\ set_time_data_from_env(None, None, None)

WeightsGenerate ==
    /\ After("set_time_data_from_env")
    /\ \E d \in WeightDicts, clip_level \in {"d", "b", "x"} : generate_LP(d, clip_level)

NextWeights ==
    /\ MetricFrame /\ ForecastFrame
    /\ \/ WeightsSetBattery
       \/ WeightsSetTime
       \/ WeightsGenerate

SpecWeights == Init /\ [][NextWeights]_vars

\* programs over custom series: each building draws a load and a solar
\* profile, so that the net flows take both signs
LoadRows(t) == {[k \in 1..t |-> 0], [k \in 1..t |-> 2], [k \in 1..t |-> 2 * (k % 2)]}

SolarRows(t) == {[k \in 1..t |-> 0], [k \in 1..t |-> 3 * ((k + 1) % 2) + 1]}

PriceRows(t) == {[k \in 1..t |-> 1], [k \in 1..t |-> 2 - (k % 2)]}

CarbonRows(t) == {[k \in 1..t |-> 1], [k \in 1..t |-> k % 2]}

Rows2(n, t, rows) == [rows |-> n, cols |-> t, val |-> rows]

Capacities(bs) == [i \in 1..Len(bs) |-> Capacity(bs[i])]

LPDicts ==
    {[price |-> VBool(TRUE), carbon |-> VBool(TRUE), ramping |-> VBool(TRUE)],
     [price |-> VBool(TRUE), carbon |-> VBool(FALSE), ramping |-> VBool(FALSE)],
     [price |-> VFloat(<<1, 2>>), carbon |-> VFloat(<<1, 4>>), ramping |-> VFloat(<<1, 4>>)],
     [price |-> VFloat(<<0, 1>>), carbon |-> VFloat(<<1, 4>>), ramping |-> VFloat(<<3, 4>>)]}

LPSetBattery ==
    /\ After("__init__")
    /\ \E b_inds \in {None, Some(<<1>>), Some(<<2>>)} : set_battery_propery_data(b_inds)

LPSetCustom ==
    /\ After("set_battery_propery_data")
    /\ \E t \in 1..MaxTau :
       \E loads \in [1..Len(buildings) -> LoadRows(t)],
          solar \in [1..Len(buildings) -> SolarRows(t)],
          pr \in PriceRows(t), ci \in CarbonRows(t),
          current_socs \in {None, Some(Capacities(buildings))} :
            set_custom_time_data(Rows2(Len(buildings), t, loads),
                                 Rows2(Len(buildings), t, solar), pr, ci, current_socs)

LPGenerate ==
    /\ After("set_custom_time_data")
    /\ \E d \in LPDicts, clip_level \in {"d", "b"} : generate_LP(d, clip_level)

LPSetParameters == After("generate_LP") /\ set_LP_parameters

NextLP ==
    /\ MetricFrame /\ ForecastFrame
    /\ \/ LPSetBattery
       \/ LPSetCustom
       \/ LPGenerate
       \/ LPSetParameters

SpecLP == Init /\ [][NextLP]_vars

\* the whole workflow up to solve_LP, on environment data and on one custom
\* bundle whose two buildings have net flows of opposite sign
SolveDicts ==
    {[price |-> VBool(TRUE), carbon |-> VBool(TRUE), ramping |-> VBool(TRUE)],
     [price |-> VBool(TRUE), carbon |-> VBool(TRUE), ramping |-> VBool(FALSE)],
     [price |-> VBool(FALSE), carbon |-> VBool(FALSE), ramping |-> VBool(TRUE)],
     [price |-> VFloat(<<1, 2>>), carbon |-> VFloat(<<1, 4>>), ramping |-> VFloat(<<1, 4>>)]}

SolveSetBattery ==
    /\ After("__init__")
    /\ \E b_inds \in {None, Some(<<1>>), Some(<<1, 2>>)} : set_battery_propery_data(b_inds)

\* an override of the initial states of charge above the capacities
OverCapacity(bs) == [i \in 1..Len(bs) |-> Capacity(bs[i]) + 1]

SolveSetTime ==
    /\ After("set_battery_propery_data")
    /\ \E ta \in {None, Some(1)}, ts \in {None, Some(1)},
          current_socs \in {None, Some(OverCapacity(buildings))} :
          set_time_data_from_env(ta, ts, current_socs)

SolveSetCustom ==
    /\ After("set_battery_propery_data")
    /\ \E t \in 1..MaxTau :
          set_custom_time_data(
              Arr2(Len(buildings), t, LAMBDA i, k : IF i = 1 THEN 2 ELSE 0),
              Arr2(Len(buildings), t, LAMBDA i, k : IF i = 1 THEN 0 ELSE 1),
              [k \in 1..t |-> 1], [k \in 1..t |-> k % 2], Some(Capacities(buildings)))

SolveGenerate ==
    /\ After("set_time_data_from_env") \/ After("set_custom_time_data")
    /\ \E d \in SolveDicts, clip_level \in {"d", "b"} : generate_LP(d, clip_level)

SolveSetParameters == After("generate_LP") /\ set_LP_parameters

SolveSolve == After("set_LP_parameters") /\ solve_LP

NextSolve ==
    /\ MetricFrame /\ ForecastFrame
    /\ \/ SolveSetBattery
       \/ SolveSetTime
       \/ SolveSetCustom
       \/ SolveGenerate
       \/ SolveSetParameters
       \/ SolveSolve

SpecSolve == Init /\ [][NextSolve]_vars

\* a Predictor alone: construction, then key calls, initialise_forecasting and
\* compute_forecast on the observations of successive time steps
TrackedChoices == {<<5, 11>>, <<0>>, <<1, 0>>}

MaxCalls == MaxL + 1

LongRun == 3 * MaxL + 1

\* the observation rows of n buildings at time step t
Obs(n, t) ==
    [i \in 1..n |-> [load |-> EnvLoad(i, t), solar |-> EnvSolar(i, t),
                     carbon |-> EnvCarbon(t), price |-> EnvPrice(t)]]

\* the number of compute_forecast calls made so far
Steps == Len(appended[predictor.training_order[1]])

InitPredictor ==
    /\ MetricIdle /\ InitLP(MaxT) /\ harness = NoHarness
    /\ \E L \in 2..MaxL, ta \in 1..MaxTau, building_indices \in TrackedChoices :
          PredictorInit(Len(building_indices), ta, building_indices, L)

PredBd2Key ==
    /\ pcall.op = "__init__"
    /\ \E j \in 1..Len(predictor.building_indices), type \in DatasetTypes :
          pcall' = [op |-> "bd2key",
                    args |-> <<PyInt(predictor.building_indices[j]), type>>,
                    status |-> "ok", out |-> NoOut,
                    value |-> Some(bd2key(PyInt(predictor.building_indices[j]), type))]
    /\ UNCHANGED <<predictor, appended>>

\* key2bd on the key bd2key returned; args keeps the key, then the arguments
\* that bd2key was given
PredKey2Bd ==
    /\ pcall.op = "bd2key"
    /\ pcall' = [op |-> "key2bd", args |-> <<Val(pcall.value)>> \o pcall.args,
                 status |-> "ok", out |-> NoOut,
                 value |-> Some(key2bd(predictor.building_indices, Val(pcall.value)))]
    /\ UNCHANGED <<predictor, appended>>

PredInitialise ==
    /\ ~predictor.has_irradiance
    /\ pcall.op \notin {"bd2key", "key2bd"}
    /\ \E T \in {MaxT, LongRun} : initialise_forecasting(T)

PredCompute ==
    /\ pcall.op \notin {"bd2key", "key2bd"}
    /\ Steps < MaxCalls
    /\ \E n \in {1, NumBuildings}, flag \in BOOLEAN :
          compute_forecast(Obs(n, Steps), <<0, 0>>, Steps, flag)

NextPredictor ==
    /\ MetricFrame /\ LPFrame /\ UNCHANGED harness
    /\ \/ PredBd2Key
       \/ PredKey2Bd
       \/ PredInitialise
       \/ PredCompute

SpecPredictor == InitPredictor /\ [][NextPredictor]_vars

----------------------------------------------------------------------------
(* assess_forecasts.py: RMSE.  A score built from square roots is kept     *)
(* exact as a sum of terms c * sqrt(r) with rational c and r.              *)

SurdNaN == [kind |-> "nan", terms |-> <<>>]

SurdOf(q) ==
    IF q = NaN THEN SurdNaN ELSE [kind |-> "finite", terms |-> <<[c |-> RInt(1), r |-> q]>>]

SurdIsZero(s) == \A k \in 1..Len(s.terms) : s.terms[k].c[1] = 0 \/ s.terms[k].r[1] = 0

SurdScale(s, q) ==
    [kind |-> s.kind, terms |-> [k \in 1..Len(s.terms) |->
                                    [c |-> RMul(s.terms[k].c, q), r |-> s.terms[k].r]]]

RECURSIVE SurdTerms(_)
SurdTerms(ss) == IF ss = <<>> THEN <<>> ELSE Head(ss).terms \o SurdTerms(Tail(ss))

\* np.mean of a list of scores
SurdMean(ss) ==
    IF ss = <<>> \/ \E k \in 1..Len(ss) : ss[k].kind = "nan" THEN SurdNaN
    ELSE IF \E k \in 1..Len(ss) : ss[k].kind = "inf" THEN [kind |-> "inf", terms |-> <<>>]
    ELSE SurdScale([kind |-> "finite", terms |-> SurdTerms(ss)], <<1, Len(ss)>>)

\* a score (never negative) over a divisor
SurdDiv(s, q) ==
    IF s.kind = "nan" \/ q = NaN THEN SurdNaN
    ELSE IF s.kind = "inf" THEN IF IsFinite(q) THEN s ELSE SurdNaN
    ELSE IF ~IsFinite(q) THEN [kind |-> "finite", terms |-> <<>>]
    ELSE IF q[1] = 0 THEN IF SurdIsZero(s) THEN SurdNaN ELSE [kind |-> "inf", terms |-> <<>>]
    ELSE SurdScale(s, <<q[2], q[1]>>)

\* RMSE(prediction, actual) = np.sqrt(np.mean(np.power(prediction - actual, 2)))
RMSE(prediction, actual) ==
    SurdOf(Mean([i \in 1..BroadcastLen(prediction, actual) |->
                    RInt((At(prediction, i) - At(actual, i)) * (At(prediction, i) - At(actual, i)))]))

\* compute_metric_score with metric = RMSE
compute_metric_score_RMSE(fs, gs, gmn) ==
    IF ~LengthsAgree(fs, gs) THEN [status |-> "AssertionError", value |-> SurdNaN]
    ELSE IF ShapeError(fs, gs) THEN [status |-> "ValueError", value |-> SurdNaN]
    ELSE LET metric_score ==
                 SurdMean([i \in 1..ZipLen(fs, gs) |-> RMSE(Truncate(fs[i], gs[i]), gs[i])])
         IN  [status |-> "ok",
              value  |-> IF gmn THEN SurdDiv(metric_score, global_mean(gs))
                         ELSE metric_score]

----------------------------------------------------------------------------
(* assess_forecasts.py: assess                                             *)

DefaultL == 720

DefaultBuildingIndices == <<5, 11>>

\* series[time_step + 1 : time_step + 1 + tau] of a series of T values
Actuals(series(_), T, time_step, ta) ==
    LET w == PySlice(T, time_step + 1, time_step + 1 + ta)
    IN  [k \in 1..Len(w) |-> series(w[k])]

\* lines 118-120: the buildings that get a forecast appended before a missing
\* row raises IndexError
LoadLogged(bundle, i) == i <= Len(bundle[1]) /\ i - 1 <= Len(bundle[2])

PvLogged(bundle, i) == i <= Len(bundle[1]) /\ i <= Len(bundle[2])

\* mutant of LogAppend: the ground truth is not logged
LogAppendForecastOnly(log, f, a) ==
    [forecasts |-> Append(log.forecasts, f), actuals |-> log.actuals]

\* lines 121-122, 128-129
LogAppend(log, f, a) ==
    [forecasts |-> Append(log.forecasts, f), actuals |-> Append(log.actuals, a)]

\* lines 113-135 for the value r that the call of line 110 produced
LoopBody(r) ==
    IF r.status # "ok" THEN
        [harness EXCEPT !.pc = "raised", !.error = r.status, !.calls = @ + 1]
    ELSE IF r.value = None THEN
        [harness EXCEPT !.calls = @ + 1, !.opt_outs = @ + 1,
                        !.actions = [i \in 1..harness.N |-> <<0>>],
                        !.time_step = @ + 1, !.num_steps = @ + 1,
                        !.done = (harness.time_step + 1 = harness.T - 1),
                        !.pc = IF harness.time_step + 1 = harness.T - 1
                               THEN "metrics" ELSE "loop"]
    ELSE LET bundle == Val(r.value)
             h == harness
             f_logged ==
                 [h EXCEPT !.calls = @ + 1, !.bundles = Append(@, bundle),
                     !.load_logs = [i \in 1..h.N |->
                         IF LoadLogged(bundle, i)
                         THEN [@[i] EXCEPT !.forecasts = Append(@, bundle[1][i])] ELSE @[i]],
                     !.pv_gen_logs = [i \in 1..h.N |->
                         IF PvLogged(bundle, i)
                         THEN [@[i] EXCEPT !.forecasts = Append(@, bundle[2][i])] ELSE @[i]]]
         IN  IF \E i \in 1..h.N : ~PvLogged(bundle, i)
             THEN [f_logged EXCEPT !.pc = "raised", !.error = "IndexError"]
             ELSE [f_logged EXCEPT
                     !.pricing_logs = LogAppend(@, bundle[3],
                         Actuals(EnvPrice, h.T, h.time_step, h.tau)),
                     !.carbon_logs = LogAppend(@, bundle[4],
                         Actuals(EnvCarbon, h.T, h.time_step, h.tau)),
                     !.load_logs = [i \in 1..h.N |->
                         [@[i] EXCEPT !.actuals = Append(@,
                             Actuals(LAMBDA k : EnvLoad(i, k), h.T, h.time_step, h.tau))]],
                     !.pv_gen_logs = [i \in 1..h.N |->
                         [@[i] EXCEPT !.actuals = Append(@,
                             Actuals(LAMBDA k : EnvSolar(i, k), h.T, h.time_step, h.tau))]],
                     !.actions = [i \in 1..h.N |-> <<0>>],
                     !.time_step = @ + 1, !.num_steps = @ + 1,
                     !.done = (h.time_step + 1 = h.T - 1),
                     !.pc = IF h.time_step + 1 = h.T - 1 THEN "metrics" ELSE "loop"]

\* lines 139-170: the scores of one log; gnorm is the flag the call passes
LogMetrics(log, gnorm) ==
    [gmnMAE |-> compute_metric_score(log.forecasts, log.actuals, gnorm),
     gmnRMSE |-> compute_metric_score_RMSE(log.forecasts, log.actuals, gnorm)]

Scored(m) == [gmnMAE |-> m.gmnMAE.value, gmnRMSE |-> m.gmnRMSE.value]

\* lines 150-151, 159-160
BuildingsAverage(ms) ==
    [gmnMAE |-> Mean([i \in 1..Len(ms) |-> ms[i].gmnMAE.value]),
     gmnRMSE |-> SurdMean([i \in 1..Len(ms) |-> ms[i].gmnRMSE.value])]

\* lines 139-202: the result structure, or the error of the first failing score
Metrics(h) ==
    LET load_metrics == [i \in 1..h.N |-> LogMetrics(h.load_logs[i], TRUE)]
        pv_gen_metrics == [i \in 1..h.N |-> LogMetrics(h.pv_gen_logs[i], TRUE)]
        pricing_metrics == LogMetrics(h.pricing_logs, FALSE)
        carbon_metrics == LogMetrics(h.carbon_logs, FALSE)
        all == load_metrics \o pv_gen_metrics \o <<pricing_metrics, carbon_metrics>>
        bad == {k \in 1..Len(all) : all[k].gmnMAE.status # "ok"}
    IN  IF bad # {}
        THEN [status |-> all[CHOOSE k \in bad : \A j \in bad : k <= j].gmnMAE.status,
              value |-> None]
        ELSE [status |-> "ok",
              value |-> Some([load |-> [i \in 1..h.N |-> Scored(load_metrics[i])],
                              load_average |-> BuildingsAverage(load_metrics),
                              pv_gen |-> [i \in 1..h.N |-> Scored(pv_gen_metrics[i])],
                              pv_gen_average |-> BuildingsAverage(pv_gen_metrics),
                              pricing |-> Scored(pricing_metrics),
                              carbon |-> Scored(carbon_metrics)])]

\* lines 78-99 as written: the Predictor with its default window and indices
AssessSetup ==
    /\ harness.pc = "start"
    /\ harness' = [harness EXCEPT !.pc = "loop"]
    /\ predictor' = NewPredictor(harness.N, harness.tau, DefaultBuildingIndices, DefaultL)
    /\ pcall' = [op |-> "__init__", args |-> <<>>, status |-> "ok", value |-> None,
                 out |-> NoOut]
    /\ appended' = [key \in SeqRange(training_order(DefaultBuildingIndices)) |-> <<>>]

\* line 110 as written: compute_forecast(observations) leaves out the required
\* arguments observations_inputs and t, so the call raises TypeError before
\* the body of the method runs
CallAsWritten ==
    [self |-> predictor, app |-> appended, status |-> "TypeError", out |-> NoOut,
     value |-> None]

AssessIteration ==
    /\ harness.pc = "loop"
    /\ harness' = LoopBody(CallAsWritten)
    /\ predictor' = CallAsWritten.self
    /\ appended' = CallAsWritten.app
    /\ pcall' = [op |-> "compute_forecast", args |-> <<Obs(harness.N, harness.time_step)>>,
                 status |-> CallAsWritten.status, value |-> None, out |-> NoOut]

\* lines 137-202
AssessMetrics ==
    /\ harness.pc = "metrics"
    /\ harness' = [harness EXCEPT
                      !.pc = IF Metrics(harness).status = "ok" THEN "returned" ELSE "raised",
                      !.error = IF Metrics(harness).status = "ok" THEN "none"
                                ELSE Metrics(harness).status,
                      !.results = Metrics(harness).value]
    /\ UNCHANGED <<predictor, pcall, appended>>

\* the environment has at least two time steps: it reports completion when
\* time_step reaches T - 1
InitAssess ==
    /\ MetricIdle /\ InitLP(MaxT)
    /\ predictor = None /\ appended = <<>>
    /\ pcall = [op |-> "none", args |-> <<>>, status |-> "none", value |-> None,
                out |-> NoOut]
    /\ \E N \in 1..(NumBuildings + 1), T \in 2..(MaxT + 2), ta \in 1..(MaxTau + 1) :
          harness = HarnessAt("start", N, T, ta)

\* the metrics of lines 137-202 are not among the steps: no run gets there
NextAssess ==
    /\ MetricFrame /\ LPFrame
    /\ \/ AssessSetup
       \/ AssessIteration

SpecAssess == InitAssess /\ [][NextAssess]_vars /\ WF_vars(NextAssess)

\* assess with its Predictor driven through the signature predictor.py
\* defines: constructed with a window L that the run can fill,
\* initialise_forecasting(env) called, and compute_forecast given the
\* observations, the inputs, the time step and the flag.  Lines 113-202 are as
\* written.
LoggingSetup ==
    /\ harness.pc = "start"
    /\ harness' = [harness EXCEPT !.pc = "loop"]
    /\ \E L \in 2..MaxL :
          /\ 2 * L + 2 <= harness.T
          /\ predictor' = [NewPredictor(harness.N, harness.tau, DefaultBuildingIndices, L)
                             EXCEPT !.has_irradiance = TRUE,
                                    !.simulation_duration = harness.T]
    /\ pcall' = [op |-> "initialise_forecasting", args |-> <<harness.T>>, status |-> "ok",
                 value |-> None, out |-> NoOut]
    /\ appended' = [key \in SeqRange(training_order(DefaultBuildingIndices)) |-> <<>>]

LoggingIteration ==
    /\ harness.pc = "loop"
    /\ \E flag \in BOOLEAN :
          /\ compute_forecast(Obs(harness.N, harness.time_step), <<0, 0>>,
                              harness.time_step, flag)
          /\ harness' = LoopBody(ComputeForecast(predictor, appended,
                            Obs(harness.N, harness.time_step), harness.time_step, flag))

InitLogging ==
    /\ MetricIdle /\ InitLP(MaxT)
    /\ predictor = None /\ appended = <<>>
    /\ pcall = [op |-> "none", args |-> <<>>, status |-> "none", value |-> None,
                out |-> NoOut]
    /\ \E N \in 1..(NumBuildings + 1), T \in {2 * MaxL, 2 * MaxL + 2}, ta \in 1..MaxTau :
          harness = HarnessAt("start", N, T, ta)

NextLogging ==
    /\ MetricFrame /\ LPFrame
    /\ \/ LoggingSetup
       \/ LoggingIteration
       \/ AssessMetrics

SpecAssessLogging == InitLogging /\ [][NextLogging]_vars

----------------------------------------------------------------------------
(* Properties of compute_metric_score (checked under SpecMetric)           *)

MetricCalled == metric_out.status # "none"

RECURSIVE SumAbsDiff(_, _, _)
\* |f[1]-a[1]| + ... + |f[n]-a[n]|
SumAbsDiff(f, a, n) ==
    IF n = 0 THEN 0 ELSE Abs(f[n] - a[n]) + SumAbsDiff(f, a, n - 1)

\* the absolute error over the first len(a) forecast samples only
RefStepScore(f, a) == RDiv(RInt(SumAbsDiff(f, a, Len(a))), RInt(Len(a)))

RECURSIVE RefScoreSum(_, _, _)
RefScoreSum(fs, gs, n) ==
    IF n = 0 THEN RInt(0)
    ELSE RAdd(RefStepScore(fs[n], gs[n]), RefScoreSum(fs, gs, n - 1))

RefScore(fs, gs) == RDiv(RefScoreSum(fs, gs, Len(gs)), RInt(Len(gs)))

ForecastsCoverTruth ==
    /\ Len(forecasts_array) = Len(ground_truth_array)
    /\ \A i \in 1..Len(ground_truth_array) :
          Len(forecasts_array[i]) >= Len(ground_truth_array[i])

\* C1: when every forecast is at least as long as its ground truth, the
\* un-normalised result is the arithmetic mean over the steps of the metric of
\* the first len(ground truth) forecast samples against the ground truth; the
\* samples beyond that length do not enter the result.
C1_TruncatedMean ==
    (MetricCalled /\ ~global_mean_norm /\ ForecastsCoverTruth)
        => metric_out = [status |-> "ok",
                         value |-> RefScore(forecasts_array, ground_truth_array)]

C1_Witness ==
    /\ MetricCalled /\ ~global_mean_norm /\ ForecastsCoverTruth
    /\ Len(ground_truth_array) >= 2
    /\ \E i \in 1..Len(ground_truth_array) :
          /\ Len(ground_truth_array[i]) >= 1
          /\ Len(forecasts_array[i]) > Len(ground_truth_array[i])
          /\ forecasts_array[i][Len(forecasts_array[i])] # forecasts_array[i][1]
    /\ IsFinite(metric_out.value) /\ metric_out.value[1] > 0

\* C2: a call with outer lists of different lengths fails with the assertion
\* error and yields no score (the common prefix is not scored).
C2_LengthMismatchFails ==
    (MetricCalled /\ Len(forecasts_array) # Len(ground_truth_array))
        => metric_out = [status |-> "AssertionError", value |-> NaN]

C2_Witness ==
    /\ MetricCalled
    /\ Len(forecasts_array) # Len(ground_truth_array)
    /\ Len(forecasts_array) >= 1 /\ Len(ground_truth_array) >= 1
    /\ Len(ground_truth_array[1]) >= 1
    /\ Len(forecasts_array[1]) >= Len(ground_truth_array[1])
    /\ metric_out.status = "AssertionError"

RECURSIVE SumFirst(_, _)
SumFirst(gs, n) == IF n = 0 THEN 0 ELSE gs[n][1] + SumFirst(gs, n - 1)

AllTruthsNonEmpty == \A i \in 1..Len(ground_truth_array) : Len(ground_truth_array[i]) > 0

\* C3: with global_mean_norm set the result is the averaged per-step score
\* divided by the mean over all scored steps of the first ground-truth value
\* (nan when a scored step has an empty ground truth); with it unset the
\* result is the averaged score itself.
C3_GlobalMeanNorm ==
    (MetricCalled /\ metric_out.status = "ok")
        => LET avg == Mean(metric_scores(forecasts_array, ground_truth_array))
               n == Len(ground_truth_array)
           IN  metric_out.value =
                  IF ~global_mean_norm THEN avg
                  ELSE IF AllTruthsNonEmpty
                       THEN RDiv(avg, RDiv(RInt(SumFirst(ground_truth_array, n)), RInt(n)))
                       ELSE NaN

C3_Witness ==
    /\ MetricCalled /\ metric_out.status = "ok" /\ global_mean_norm
    /\ Len(ground_truth_array) >= 2
    /\ AllTruthsNonEmpty
    /\ ground_truth_array[1][1] # ground_truth_array[2][1]
    /\ IsFinite(metric_out.value) /\ metric_out.value[1] > 0
    /\ metric_out.value # Mean(metric_scores(forecasts_array, ground_truth_array))

----------------------------------------------------------------------------
(* Properties of LinProgModel.generate_LP (checked under SpecWeights)      *)

Called(op) == ret.op = op

Succeeded(op) == op \in succeeded

\* |x - 1| <= tol
NearOne(x, tol) == IsFinite(x) /\ RLeq(RAbs(RSub(x, RInt(1))), tol)

NumTrue(d) == Cardinality({key \in KeySet : d[key] = VBool(TRUE)})

\* the weight a dict of flags gives each key: 1/(number of true flags) or 0
EvenShare(d, key) ==
    IF d[key] = VBool(TRUE) THEN RDiv(RInt(1), RInt(NumTrue(d))) ELSE RInt(0)

\* C4: whenever generate_LP accepts an objective_dict, the resolved weights it
\* stores (objective_dict) and the weights the objective uses (one per active
\* term) each sum to 1; when all values are booleans every true flag resolves
\* to 1/(number of true flags) and every false flag to 0.
C4_WeightsSumToOne ==
    (Called("generate_LP") /\ ret.status = "ok")
        => /\ NearOne(SumValues(objective_dict), <<1, 100>>)
           /\ NearOne(RSumTo(problem.weights, Len(problem.weights)), <<1, 100>>)
           /\ AllBool(ret.args[1]) =>
                 \A key \in KeySet : objective_dict[key].x = EvenShare(ret.args[1], key)

\* all booleans with at least one true, or all explicit non-negative weights
\* summing to 1 within 1e-3
Admissible(d) ==
    \/ AllBool(d) /\ NumTrue(d) >= 1
    \/ /\ \A key \in KeySet : d[key].t = "float" /\ RLeq(RInt(0), d[key].x)
       /\ NearOne(SumValues(d), <<1, 1000>>)

\* C5: generate_LP (called with battery and time data loaded) succeeds only
\* on an admissible objective_dict with clip_level 'd' or 'b'; on every other
\* input it fails with the invalid-input (assertion) error and constructs no
\* program.
C5_ValidationRejectsTheRest ==
    (Called("generate_LP") /\ Succeeded("set_battery_propery_data")
                           /\ Succeeded("set_time_data_from_env"))
        => \/ Admissible(ret.args[1]) /\ ret.args[2] \in {"d", "b"}
           \/ ret.status = "AssertionError" /\ "problem" \notin has

----------------------------------------------------------------------------
(* Properties of set_time_data_from_env (checked under SpecHorizon)        *)

\* C8: after battery data is set and with t_start >= 0, the call with
\* tau = (Tmax-1) - t_start succeeds and fixes the horizon to that tau, and a
\* call with a larger tau fails with the invalid-input (value) error.
C8_HorizonBound ==
    (Called("set_time_data_from_env") /\ Succeeded("set_battery_propery_data")
        /\ Len(buildings) > 0 /\ ret.args[1] # None)
        => LET ta == Val(ret.args[1])
               ts == IF ret.args[2] = None THEN 0 ELSE Val(ret.args[2])
               bound == (Tmax - 1) - ts
           IN  /\ ta = bound => ret.status = "ok" /\ tau = bound
               /\ ta > bound => ret.status = "ValueError"

----------------------------------------------------------------------------
(* Properties of the call order (checked under Spec)                       *)

TimeDataSucceeded ==
    Succeeded("set_time_data_from_env") \/ Succeeded("set_custom_time_data")

\* the prerequisite of the last call has not succeeded
CalledTooEarly ==
    \/ /\ Called("set_time_data_from_env") \/ Called("set_custom_time_data")
       /\ ~Succeeded("set_battery_propery_data")
    \/ /\ Called("generate_LP")
       /\ ~Succeeded("set_battery_propery_data") \/ ~TimeDataSucceeded
    \/ /\ Called("set_LP_parameters")
       /\ ~Succeeded("generate_LP") \/ ~TimeDataSucceeded
    \/ /\ Called("get_LP_data")
       /\ ~Succeeded("generate_LP")

\* C10: in every sequence of calls on one instance, an operation invoked
\* before its prerequisite has succeeded fails with the ordering/state error
\* (NameError, the same kind for every operation) and never succeeds.
C10_OrderingErrors == CalledTooEarly => ret.status = "NameError"

----------------------------------------------------------------------------
(* Properties of solve_LP (checked under SpecSolve)                        *)

KeyIndex(key) == CHOOSE j \in 1..3 : Keys[j] = key

Active(key) == Truthy(objective_dict[key])

\* the breakdown entries of the active terms weighted by the resolved weights
WeightedActiveSum(bd) ==
    LET term == [j \in 1..3 |->
                    IF Active(Keys[j]) THEN RMul(bd[j], objective_dict[Keys[j]].x)
                    ELSE RInt(0)]
    IN  RSumTo(term, 3)

\* C6: for every accepted objective_dict (inactive terms included) and both
\* clip levels, solve_LP on the generated and bound program returns a
\* 3-entry breakdown whose inactive entries have no value, an obj_check that
\* is the weighted sum of the active breakdown entries under the resolved
\* weights, and that obj_check equals the optimised objective value.
C6_ObjCheckMatchesObjective ==
    (Called("solve_LP") /\ Succeeded("set_LP_parameters"))
        => /\ ret.status = "ok"
           /\ Len(solution.breakdown) = 3
           /\ \A key \in KeySet :
                 ~Active(key) <=> solution.breakdown[KeyIndex(key)] = NaN
           /\ solution.obj_check = WeightedActiveSum(solution.breakdown)
           /\ solution.obj_check = solution.value

----------------------------------------------------------------------------
(* Properties of the generated program (checked under SpecLP)              *)

\* a program has been generated and all its parameters are bound
ProgramBound == Called("set_LP_parameters") /\ ret.status = "ok"

SocsWithinCapacity ==
    \A i \in 1..problem.N :
        0 <= params.current_socs[i] /\ params.current_socs[i] <= Capacity(problem.buildings[i])

\* the no-storage baseline of one term
Baseline(key) ==
    IF key = "price" THEN price_without(problem, params)
    ELSE IF key = "carbon" THEN carbon_without(problem, params)
    ELSE ramp_without(problem, params)

\* the objective of the district without storage: each active term is its own
\* baseline over max(baseline, 1)
BaselineObjective ==
    Dot([j \in 1..Len(problem.terms) |->
            RDiv(Baseline(problem.terms[j]), RMax(Baseline(problem.terms[j]), RInt(1)))],
        problem.weights)

\* C7: for every bound input bundle whose initial states of charge lie in
\* [0, capacity], alpha = 0 everywhere (with SoC = 0) satisfies every
\* storage-dynamics, power-limit and capacity constraint, and the objective at
\* alpha = 0 with the auxiliary variables at their least feasible values is
\* the no-storage baseline objective.
C7_ZeroAlphaIsBaseline ==
    (ProgramBound /\ SocsWithinCapacity)
        => /\ Feasible(problem, params, ZeroAlpha(problem), ZeroAlpha(problem))
           /\ ObjAt(problem, params, ZeroAlpha(problem)) = BaselineObjective

\* some building exports and another imports at the same step
MixedFlows ==
    \E k \in 1..problem.tau : \E i, j \in 1..problem.N :
        /\ RLess(building_power_flows_without(problem, params)[i][k], RInt(0))
        /\ RLess(RInt(0), building_power_flows_without(problem, params)[j][k])

C7_Witness ==
    /\ ProgramBound /\ SocsWithinCapacity
    /\ problem.N = 2 /\ problem.clip_level = "b" /\ problem.tau >= 2
    /\ "price" \in {problem.terms[j] : j \in 1..Len(problem.terms)}
    /\ MixedFlows
    /\ \E i \in 1..problem.N : params.current_socs[i] > 0
    /\ RLess(RInt(0), BaselineObjective)
    /\ ObjAt(problem, params, ZeroAlpha(problem)) = BaselineObjective

ClipD == [problem EXCEPT !.clip_level = "d"]

ClipB == [problem EXCEPT !.clip_level = "b"]

OptimalValues(prob) == {ObjAt(prob, params, a) : a \in Optimal(prob, params)}

\* C9: with exactly one selected building, the program generated with
\* clip_level 'd' and the one generated with 'b' have the same no-storage
\* baselines and give every alpha the same objective value, hence the same
\* optimal objective value.
C9_SingleBuildingClipLevels ==
    (ProgramBound /\ problem.N = 1)
        => /\ price_without(ClipD, params) = price_without(ClipB, params)
           /\ carbon_without(ClipD, params) = carbon_without(ClipB, params)
           /\ ramp_without(ClipD, params) = ramp_without(ClipB, params)
           /\ \A alpha \in AlphaGrid(problem) :
                 ObjAt(ClipD, params, alpha) = ObjAt(ClipB, params, alpha)
           /\ OptimalValues(ClipD) = OptimalValues(ClipB)

C9_Witness ==
    /\ ProgramBound /\ problem.N = 1 /\ problem.clip_level = "b" /\ problem.tau >= 2
    /\ Len(problem.terms) = 3
    /\ \E k \in 1..problem.tau :
          RLess(building_power_flows_without(problem, params)[1][k], RInt(0))
    /\ \E k \in 1..problem.tau :
          RLess(RInt(0), building_power_flows_without(problem, params)[1][k])
    /\ \E alpha \in AlphaGrid(problem) :
          /\ alpha # ZeroAlpha(problem)
          /\ AlphaFeasible(problem, params, alpha)
          /\ RLess(ObjAt(ClipB, params, alpha), ObjAt(ClipB, params, ZeroAlpha(problem)))
          /\ ObjAt(ClipD, params, alpha) = ObjAt(ClipB, params, alpha)

----------------------------------------------------------------------------
(* Battery state of charge in the program (checked under SpecSolve)        *)

InCapacity(x, i) ==
    RLeq(RInt(0), x) /\ RLeq(x, RInt(Capacity(problem.buildings[i])))

\* C11: for every building i, the initial state of charge that
\* set_LP_parameters binds into the program and SoC[i,k] at every step k of a
\* solution of the generated constraints lie in [0, capacity[i]].
C11_SoCWithinCapacity ==
    /\ (Called("set_LP_parameters") /\ ret.status = "ok")
          => \A i \in 1..problem.N : InCapacity(RInt(params.current_socs[i]), i)
    /\ (Called("solve_LP") /\ ret.status = "ok")
          => \A i \in 1..problem.N : \A k \in 1..problem.tau :
                InCapacity(solution.SoC[i][k], i)

----------------------------------------------------------------------------
(* Predictor keys (checked under SpecPredictor)                            *)

\* C12: for a tracked building index b and a type in {load, solar},
\* key2bd(bd2key(b, type)) is (b, type) with b the integer that was passed in;
\* for carbon and price bd2key(b, type) is the bare type and key2bd of it is
\* (first tracked building index, type).
C12_KeyRoundTrip ==
    pcall.op = "key2bd" =>
        LET key == pcall.args[1]
            b == pcall.args[2]
            type == pcall.args[3]
        IN  IF type \in {LOAD, SOLAR}
            THEN Val(pcall.value) = <<b, type>>
            ELSE /\ key = type
                 /\ Val(pcall.value) = <<PyInt(predictor.building_indices[1]), type>>

----------------------------------------------------------------------------
(* Predictor buffers (checked under SpecPredictor)                         *)

LastOf(q, n) == SubSeq(q, Len(q) - n + 1, Len(q))

\* C13: after construction and any number of compute_forecast calls, with or
\* without a forecast, every tracked signal's buffer has length exactly L, and
\* once more than L observations have been appended it holds exactly the L
\* most recently appended values in arrival order.
C13_RollingBuffers ==
    \A key \in DOMAIN predictor.buffer :
        /\ Len(predictor.buffer[key]) = predictor.L
        /\ Len(appended[key]) > predictor.L
              => predictor.buffer[key] = LastOf(appended[key], predictor.L)

\* a buffer that has received more than L observations, the oldest of them
\* no longer in it
C13_Witness ==
    /\ pcall.op = "compute_forecast"
    /\ \E key \in DOMAIN predictor.buffer :
          /\ Len(appended[key]) > predictor.L
          /\ predictor.buffer[key] # SubSeq(appended[key], 1, predictor.L)

----------------------------------------------------------------------------
(* The forecast window (checked under SpecPredictor)                       *)

\* a compute_forecast call that returned a bundle
ReturnedBundle == pcall.op = "compute_forecast" /\ pcall.status = "ok" /\ pcall.value # None

\* the forecast of the j-th key of training_order in the lists of line 386
ForecastOfKey(j) ==
    LET nb == Len(predictor.building_indices)
    IN  IF j <= nb THEN pcall.out.load[j]
        ELSE IF j <= 2 * nb THEN pcall.out.solar[j - nb]
        ELSE IF j = 2 * nb + 1 THEN pcall.out.carbon[1]
        ELSE pcall.out.price[1]

\* the reconstruction of the model fitted to the j-th key's window
ReconstructionOfKey(j) ==
    LET nb == Len(predictor.building_indices)
        window == predictor.buffer[predictor.training_order[j]]
    IN  IF nb < j /\ j <= 2 * nb
        THEN Reconstruct(window, predictor.L)
        ELSE Reconstruct(window, predictor.tau + predictor.L)

\* C17: for every tracked signal the forecast returned is the fitted model's
\* reconstruction at indices L, L+1, ..., L+2*tau-1, so it starts at the first
\* step after the L-long snapshot window, and it has exactly 2*tau samples.
C17_ForecastWindow ==
    ReturnedBundle =>
        \A j \in 1..Len(predictor.training_order) :
            /\ Len(ForecastOfKey(j)) = 2 * predictor.tau
            /\ \A k \in 1..(2 * predictor.tau) :
                  ForecastOfKey(j)[k] = ReconstructionOfKey(j)[predictor.L + k]

----------------------------------------------------------------------------
(* The effect of one compute_forecast call (checked under SpecPredictor)   *)

\* the observation of the j-th key of training_order in the rows obs
ObservationOfKey(self, obs, j) ==
    LET nb == Len(self.building_indices)
    IN  IF j <= nb THEN obs[j].load
        ELSE IF j <= 2 * nb THEN obs[j - nb].solar
        ELSE IF j = 2 * nb + 1 THEN obs[1].carbon
        ELSE obs[1].price

\* C18: a compute_forecast call that returns appends exactly one new
\* observation, the current one of the signal, to every tracked signal's
\* buffer, whether or not a forecast is computed; with compute_forecast=false
\* it returns an absent result and changes nothing else in the Predictor (no
\* model is fitted, the exogenous-input buffer is untouched).
C18_OneAppendPerCall ==
    [][(pcall'.op = "compute_forecast" /\ pcall'.status = "ok") =>
          /\ \A j \in 1..Len(predictor.training_order) :
                LET key == predictor.training_order[j]
                    x == ObservationOfKey(predictor, pcall'.args[1], j)
                IN  /\ appended'[key] = Append(appended[key], x)
                    /\ predictor'.buffer[key] = Tail(predictor.buffer[key]) \o <<x>>
          /\ ~pcall'.args[3] =>
                /\ pcall'.value = None
                /\ predictor' = [predictor EXCEPT !.buffer = predictor'.buffer]]_vars

\* a maintenance call has returned on a Predictor whose models were fitted by
\* an earlier forecasting call
C18_Witness ==
    /\ pcall.op = "compute_forecast" /\ pcall.status = "ok" /\ ~pcall.args[3]
    /\ pcall.value = None
    /\ predictor.fitted.dmdc # <<>>
    /\ \A key \in DOMAIN appended : Len(appended[key]) >= 2

----------------------------------------------------------------------------
(* The logs of assess (checked under SpecAssessLogging)                    *)

Last(q) == q[Len(q)]

\* the iteration that just ended logged a bundle the Predictor returned
LoggedBundle == ReturnedBundle /\ harness.error = "none" /\ harness.num_steps > 0

----------------------------------------------------------------------------
(* The control loop of assess (checked under SpecAssess)                   *)

\* C19: the loop terminates and assess returns its result structure; in every
\* iteration the Predictor's forecast computation is invoked exactly once,
\* successfully and with the current observation, before the environment is
\* stepped exactly once with an all-zero action of one component per building.
C19_LoopCompletes ==
    /\ [](/\ harness.error = "none"
          /\ harness.calls = harness.num_steps
          /\ harness.time_step = harness.num_steps
          /\ harness.num_steps > 0 => harness.actions = [i \in 1..harness.N |-> <<0>>])
    /\ <>(harness.pc = "returned" /\ harness.results # None)

----------------------------------------------------------------------------
(* Log pairing (checked under SpecAssessLogging)                           *)

AllLogs(h) == h.load_logs \o h.pv_gen_logs \o <<h.pricing_logs, h.carbon_logs>>

\* C20: after every loop iteration the forecasts and the actuals of each
\* building's load log, each building's solar log, the pricing log and the
\* carbon log have the same length, the number of iterations so far in which
\* the Predictor did not opt out; an opt-out iteration appends to no log but
\* still steps the environment.
C20_LogPairing ==
    /\ [](harness.pc \in {"loop", "metrics", "returned"} =>
             \A k \in 1..Len(AllLogs(harness)) :
                 /\ Len(AllLogs(harness)[k].forecasts) = harness.num_steps - harness.opt_outs
                 /\ Len(AllLogs(harness)[k].actuals) = harness.num_steps - harness.opt_outs)
    /\ [][harness'.opt_outs # harness.opt_outs =>
             /\ AllLogs(harness') = AllLogs(harness)
             /\ harness'.time_step = harness.time_step + 1
             /\ harness'.num_steps = harness.num_steps + 1
             /\ harness'.actions = [i \in 1..harness.N |-> <<0>>]]_vars

\* a run in which the Predictor has opted out of some iterations and returned
\* a bundle in others
C20_Witness ==
    /\ harness.pc \in {"loop", "metrics"}
    /\ harness.opt_outs >= 1
    /\ Len(harness.bundles) >= 1
    /\ Len(harness.pricing_logs.actuals) = Len(harness.bundles)
    /\ harness.num_steps = harness.opt_outs + Len(harness.bundles)

----------------------------------------------------------------------------
(* The irradiance window of the solar path (checked under SpecPredictor)   *)

\* lines 286-287: base_df[...][:L] without its last row, transposed
FitControlCols(self, t) == Max(Min(IrradianceRows(self, t), self.L) - 1, 0)

\* lines 302-303: base_df[...][L:] without its last row, transposed
FutureControlCols(self, t) == Max(Max(IrradianceRows(self, t) - self.L, 0) - 1, 0)

\* a compute_forecast call at a step of the simulation that reached the solar
\* branch of some key
SolarForecastComputed ==
    /\ pcall.op = "compute_forecast" /\ pcall.args[3]
    /\ pcall.status \in {"ok", "ValueError", "RuntimeError"}
    /\ predictor.has_irradiance
    /\ pcall.args[2] \in 0..(predictor.simulation_duration - 1)

\* C21: at every simulation step t from 0 to simulation_duration-1 at which a
\* solar forecast is computed, the irradiance slice [t, t+2L) holds 2L entries,
\* so the fitting control input has L-1 columns and the future control input
\* used for the reconstruction has as many.
C21_IrradianceWindow ==
    SolarForecastComputed =>
        /\ IrradianceRows(predictor, pcall.args[2]) = 2 * predictor.L
        /\ FitControlCols(predictor, pcall.args[2]) = predictor.L - 1
        /\ FutureControlCols(predictor, pcall.args[2]) =
               FitControlCols(predictor, pcall.args[2])

----------------------------------------------------------------------------
(* The loaded time series (checked under Spec)                             *)

TimeDataLoaded ==
    {"elec_loads", "solar_gens", "prices", "carbon_intensities"} \subseteq has

\* C22: after any sequence of successful set_battery_propery_data,
\* set_time_data_from_env (t_start >= 0) and set_custom_time_data calls,
\* whenever time data is loaded the load and solar arrays have one row per
\* currently selected building and tau columns, and the price and carbon
\* arrays have tau entries, tau being the instance's current horizon.
C22_BundleShapes ==
    TimeDataLoaded =>
        /\ elec_loads.rows = Len(buildings) /\ elec_loads.cols = tau
        /\ solar_gens.rows = Len(buildings) /\ solar_gens.cols = tau
        /\ Len(prices) = tau
        /\ Len(carbon_intensities) = tau

----------------------------------------------------------------------------
(* Failing time-data calls (checked under Spec)                            *)

\* C23: whenever set_custom_time_data or set_time_data_from_env fails, the
\* instance's horizon tau, t_start, initial states of charge and loaded series
\* (the attributes and which of them exist) are exactly what they were before
\* the call, so a later call behaves as if the failed one had never happened.
C23_FailedCallChangesNothing ==
    [][(/\ ret'.op \in {"set_custom_time_data", "set_time_data_from_env"}
        /\ ret'.status # "ok")
          => UNCHANGED <<has, tau, t_start, battery_initial_socs, elec_loads, solar_gens,
                         prices, carbon_intensities>>]_vars

----------------------------------------------------------------------------
(* The generated program and the instance (checked under Spec)             *)

\* C24: in every state reachable by any sequence of calls in which a program
\* has been generated, the horizon and the building count the program was
\* built with equal the instance's current tau and current number of selected
\* buildings, so set_LP_parameters always binds arrays of the shapes the
\* program expects.
C24_ProgramMatchesInstance ==
    "problem" \in has =>
        /\ problem.tau = tau
        /\ problem.N = Len(buildings)
        /\ (Called("set_LP_parameters") /\ DataLoaded) => ret.status = "ok"

----------------------------------------------------------------------------
(* Observation routing (checked under SpecPredictor)                       *)

\* the observation row of building b, rows being numbered from 0
RowOf(obs, b) == obs[b + 1]

\* C25: for every tracked building index b, the value appended to buffer
\* load_<b> is the load reading of the observation row of building b and the
\* value appended to solar_<b> is the solar reading of that same row; the
\* carbon and price buffers receive the readings of the first row.  This holds
\* for every choice of building_indices, not only (0, 1, ...).
C25_ObservationRouting ==
    (pcall.op = "compute_forecast" /\ pcall.status = "ok") =>
        LET obs == pcall.args[1]
        IN  /\ \A j \in 1..Len(predictor.building_indices) :
                  LET b == predictor.building_indices[j]
                  IN  b < Len(obs) =>
                        /\ Last(appended[bd2key(PyInt(b), LOAD)]) = RowOf(obs, b).load
                        /\ Last(appended[bd2key(PyInt(b), SOLAR)]) = RowOf(obs, b).solar
            /\ Last(appended[CARBON]) = RowOf(obs, 0).carbon
            /\ Last(appended[PRICE]) = RowOf(obs, 0).price

----------------------------------------------------------------------------
(* The horizon after a time-data call (checked under SpecHorizon)          *)

\* C26: after any successful set_time_data_from_env or set_custom_time_data
\* call, for every tau argument (absent and zero included) and every t_start
\* in [0, Tmax-1], the instance's horizon tau is at least 1, so generate_LP is
\* never run on an empty or negative planning window.
C26_PositiveHorizon ==
    (/\ Called("set_time_data_from_env") \/ Called("set_custom_time_data")
     /\ ret.status = "ok"
     /\ Called("set_time_data_from_env") => NewTStart(ret.args[2]) \in 0..(Tmax - 1))
        => tau >= 1
====
